---------------------------- MODULE Spec2Model ----------------------------
(***************************************************************************)
(* A model of the SEI scraper (backend/app/rpa/scraping.py): the text      *)
(* normaliser, the frame-aware locator, the paginated row collector, the   *)
(* guided selector with its replay, the tree expander and the extraction   *)
(* session run_full_flow.                                                  *)
(*                                                                         *)
(* A text is a sequence of characters, each character a one-token string.  *)
(* Characters outside ASCII are written as tokens:                         *)
(*   "A'" U+00C1   "a'" U+00E1   "U'" U+00DA   "u'" U+00FA                 *)
(*   "A~" U+00C3   "A^" U+00C2   "i!" U+00A1   "o_" U+00BA   "FFFD" U+FFFD  *)
(***************************************************************************)
EXTENDS Integers, Sequences, FiniteSets, TLC

(***************************************************************************)
(* Bounds of the model.                                                    *)
(***************************************************************************)
\* rows of one listing, over all its pages
MaxRows == 3
\* top-level frames of a page
MaxFrames == 3
\* phrases of the configured DESCRICOES_BUSCA value
MaxTargets == 2
\* next-page controls one page shows
MaxCtls == 2
\* characters of a configured phrase
MaxPhraseLen == 3

(***************************************************************************)
(* Text Normalizer: SEIScraper._normalize_text.                            *)
(***************************************************************************)
EmptyText == << >>

IsSpace(c) == c = " "

\* str.upper() on one character
UpperChar(c) ==
  CASE c = "a"  -> "A"
    [] c = "d"  -> "D"
    [] c = "o"  -> "O"
    [] c = "a'" -> "A'"
    [] c = "u'" -> "U'"
    [] OTHER    -> c

\* unicodedata.normalize("NFKD", c) with the combining marks dropped
Deaccent(c) ==
  CASE c = "A'" -> "A"
    [] c = "a'" -> "a"
    [] c = "U'" -> "U"
    [] c = "u'" -> "u"
    [] c = "A~" -> "A"
    [] c = "A^" -> "A"
    [] c = "o_" -> "o"
    [] OTHER    -> c

\* the markers that trigger the latin1 -> utf-8 repair
IsMojibakeMarker(c) == c \in {"A~", "A^", "FFFD"}

\* str.encode("latin1") fails on a character above U+00FF
Latin1Encodable(c) == c # "FFFD"

\* bytes 0x80..0xBF among the characters of the model
IsContinuation(c) == c \in {"i!", "o_"}

\* the two-byte UTF-8 sequences over the characters of the model
Utf8Pair(lead, cont) ==
  CASE lead = "A~" /\ cont = "i!" -> "a'"
    [] lead = "A~" /\ cont = "o_" -> "u'"
    [] lead = "A^" /\ cont = "i!" -> "i!"
    [] lead = "A^" /\ cont = "o_" -> "o_"

IsAscii(c) == c \notin {"A'", "a'", "U'", "u'", "A~", "A^", "i!", "o_", "FFFD"}

RECURSIVE Utf8Decode(_)
\* bytes.decode("utf-8"): [ok, out]; ok is FALSE on an invalid sequence
Utf8Decode(s) ==
  IF s = << >> THEN [ok |-> TRUE, out |-> << >>]
  ELSE IF IsAscii(Head(s))
    THEN LET r == Utf8Decode(Tail(s))
         IN  [ok |-> r.ok, out |-> <<Head(s)>> \o r.out]
  ELSE IF Head(s) \in {"A~", "A^"} /\ Len(s) >= 2 /\ IsContinuation(s[2])
    THEN LET r == Utf8Decode(Tail(Tail(s)))
         IN  [ok |-> r.ok, out |-> <<Utf8Pair(s[1], s[2])>> \o r.out]
  ELSE [ok |-> FALSE, out |-> << >>]

FixMojibake(value) ==
  IF \E i \in 1..Len(value) : IsMojibakeMarker(value[i])
  THEN IF \A i \in 1..Len(value) : Latin1Encodable(value[i])
       THEN LET r == Utf8Decode(value) IN IF r.ok THEN r.out ELSE value
       ELSE value
  ELSE value

RECURSIVE StripLeft(_)
StripLeft(s) ==
  IF s # << >> /\ IsSpace(Head(s)) THEN StripLeft(Tail(s)) ELSE s

RECURSIVE StripRight(_)
StripRight(s) ==
  IF s # << >> /\ IsSpace(s[Len(s)]) THEN StripRight(SubSeq(s, 1, Len(s) - 1)) ELSE s

\* str.strip()
Strip(s) == StripRight(StripLeft(s))

RECURSIVE CollapseSpaces(_)
\* " ".join(s.split()) on a text without leading space
CollapseSpaces(s) ==
  IF s = << >> THEN << >>
  ELSE IF IsSpace(Head(s))
    THEN LET rest == StripLeft(s)
         IN  IF rest = << >> THEN << >> ELSE <<" ">> \o CollapseSpaces(rest)
  ELSE <<Head(s)>> \o CollapseSpaces(Tail(s))

MapChars(f(_), s) == [i \in 1..Len(s) |-> f(s[i])]

_normalize_text(value) ==
  IF value = EmptyText THEN EmptyText
  ELSE LET fixed     == FixMojibake(value)
           collapsed == MapChars(UpperChar, CollapseSpaces(StripLeft(fixed)))
       IN  MapChars(Deaccent, collapsed)


(***************************************************************************)
(* Texts of the model.                                                     *)
(***************************************************************************)
TxtALPHA == <<"A", "L", "P", "H", "A">>
TxtBETA == <<"B", "E", "T", "A">>
TxtBlank == <<" ">>
TxtBetaX == <<"B", "E", "T", "A", " ", "X">>
\* "ÁLPHA  Y": normalises to "ALPHA Y"
TxtAlphaYRaw == <<"A'", "L", "P", "H", "A", " ", " ", "Y">>
TxtNum1 == <<"1">>
TxtNum2 == <<"2">>

\* the "|"-separated parts a configured DESCRICOES_BUSCA value may hold
RawTargetParts == {TxtALPHA, TxtBETA, TxtBlank}

RawTargetLists == UNION {[1..n -> RawTargetParts] : n \in 0..MaxTargets}

\* a table row of the listing as the server renders it: the text of its
\* identifying link and the text of its description cell
RowPool ==
  { [num |-> TxtNum1, desc |-> TxtBetaX],
    [num |-> TxtNum2, desc |-> TxtAlphaYRaw],
    [num |-> TxtNum2, desc |-> TxtALPHA] }

RowSeqs == UNION {[1..n -> RowPool] : n \in 0..MaxRows}

\* the page of row i when a page ends after each row of cuts
PageOfRow(i, cuts) == 1 + Cardinality({c \in cuts : c < i})

\* rows split into consecutive non-empty pages
Paginate(rows, cuts) ==
  [p \in 1..(Cardinality(cuts) + 1) |->
     LET idx   == {i \in 1..Len(rows) : PageOfRow(i, cuts) = p}
         first == CHOOSE i \in idx : \A j \in idx : i <= j
         last  == CHOOSE i \in idx : \A j \in idx : j <= i
     IN  SubSeq(rows, first, last)]

\* every listing of at most MaxRows rows: a sequence of pages of rows
Listings ==
  {<< >>} \cup
  UNION { {Paginate(rows, cuts) : cuts \in SUBSET (1..(Len(rows) - 1))} :
          rows \in RowSeqs \ {<< >>} }

\* s without its i-th element
RemoveAt(s, i) == SubSeq(s, 1, i - 1) \o SubSeq(s, i + 1, Len(s))

\* the (page, row) positions of a listing
Positions(l) == UNION {{<<p, i>> : i \in 1..Len(l[p])} : p \in 1..Len(l)}

\* what a reload of the listing URL may show when page p is the page to
\* come back to: the same listing, the listing with one row of page p gone,
\* or the listing with the description of one row of page p edited
ReloadVariants(l, p) ==
  {l} \cup
  { [l EXCEPT ![p] = RemoveAt(@, i)] : i \in 1..Len(l[p]) } \cup
  { [l EXCEPT ![p][i].desc = TxtBetaX] : i \in 1..Len(l[p]) }

(***************************************************************************)
(* State.                                                                  *)
(***************************************************************************)
VARIABLES
  \* SEIScraper fields set by __init__
  settings,              \* self.settings: the configured values as read, the
                         \* phrases of DESCRICOES_BUSCA and the match mode
  descricoes_busca,      \* parsed, normalised search targets, by priority
  descricao_match_mode,  \* "contains" or "exact"
  selectors,             \* the keys the locator table holds
  driver,                \* self.driver: "none" before it is created, "open",
                         \* or "quit" once driver.quit() was attempted
  \* the browser
  screen,                \* what the window shows: "login", "gateway", "home",
                         \* "listing", "interno" or "processo"
  menuIn,                \* the contexts (0 default, k frame k) of the home
                         \* screen in which the menu controls are
  listing,               \* the listing the server shows: pages of rows
  curPage,               \* the listing page displayed, 0 when none is
  epoch,                 \* number of navigations so far: a handle is
                         \* valid in the epoch that produced it
  ctx,                   \* active context: 0 the default document, k frame k
  flaky,                 \* whether elements of the page can go stale while read
  windows,               \* driver.window_handles, in the driver's order
  curWin,                \* the focused window
  procEntries,           \* texts of the process entries the interno page shows
  tree,                  \* folders of the tree of the process window
  arvore,                \* whether the process window has the frame ifrArvore
  \* position in the program
  pc,
  now, deadline,         \* the clock of the wait in progress and its deadline
  \* locals of _collect_interno_rows_with_pagination
  max_pages, page, seen, collected,
  \* locals of _open_guided_interno_by_descricao and _click_selected_interno
  selected,              \* << >> (None) or <<row>>
  selected_target,
  current_page,
  selecionado,           \* what _open_guided_interno_by_descricao returned
  \* locals of run_full_flow and of _expand_all_pastas
  processos, proc_i,
  max_cycles, cycle, total_clicked, previous_doc_count,
  doc_count,             \* the count at the start of the cycle last run, -1 before
  expand_errors,         \* a driver call of the expansion in progress raised
  found,                 \* self.found
  result,                \* << >> or <<list>>: what run_full_flow returned
  error,                 \* "" or the exception that left run_full_flow
  \* history of the run
  trace,                 \* driver actions and error reports, in order
  visited,               \* signature of every row a page collection returned
  clicked,               \* << >> or <<row>>: the listing row whose link was clicked
  staleDeref,            \* a handle of an earlier epoch was read or clicked
  warnings,              \* the warnings logged by the guided selection and its caller
  \* one call of _click_next_page_if_available
  next_controls,         \* the controls the page shows to the call in progress,
                         \* in document order: what each is and which expression finds it
  next_clicked,          \* << >> or <<i>>: the control the call clicked
  \* one call of wait_for_elements
  matchDefault,          \* the expression matches in the default document
  frameMatch,            \* per top-level frame: the expression matches in it
  restore_context,       \* the parameter of that name
  iframes, frame_idx,    \* the number of frames found, the frame in turn
  located,               \* << >> or <<context of the elements returned>>
  doc_ready,             \* _wait_for_document_ready returned in this call
  switches,              \* the contexts entered in the current round, in order
  roundOk, swept         \* no frame was skipped in the current round; a
                         \* round has tried every frame

configVars == <<settings, descricoes_busca, descricao_match_mode, selectors, driver>>
browserVars == <<listing, curPage, epoch, ctx, flaky>>
sweepVars == <<max_pages, page, seen, collected>>
replayVars == <<selected, selected_target, current_page>>
historyVars == <<trace, visited, clicked, staleDeref, warnings>>
windowVars == <<windows, curWin>>
processVars == <<procEntries, tree, arvore>>
loginVars == <<screen, menuIn, now, deadline>>
expandVars == <<max_cycles, cycle, total_clicked, previous_doc_count, doc_count, expand_errors>>
loopVars == <<processos, proc_i, found, result, error>>
\* what the guided selection neither reads nor writes
flowVars == <<loginVars, windowVars, processVars, expandVars, loopVars>>

pagerVars == <<next_controls, next_clicked>>

locateVars == <<matchDefault, frameMatch, restore_context, iframes, frame_idx, located,
                switches, roundOk, swept, doc_ready>>

vars == <<pagerVars, configVars, browserVars, pc, sweepVars, replayVars, selecionado,
          historyVars, flowVars, locateVars>>

(***************************************************************************)
(* Configuration: SEIScraper.__init__ and _parse_descricoes_busca.         *)
(***************************************************************************)
\* s without its empty texts
RECURSIVE NonEmptyTexts(_)
NonEmptyTexts(s) ==
  IF s = << >> THEN << >>
  ELSE IF Head(s) = EmptyText THEN NonEmptyTexts(Tail(s))
  ELSE <<Head(s)>> \o NonEmptyTexts(Tail(s))

\* parts: raw_value.split("|")
\* faulty variant of _parse_descricoes_busca: the empty parts are kept
_parse_descricoes_busca_KeepsEmpty(parts) ==
  [i \in 1..Len(parts) |-> _normalize_text(parts[i])]

_parse_descricoes_busca(parts) ==
  NonEmptyTexts([i \in 1..Len(parts) |-> _normalize_text(parts[i])])

MatchModes == {"contains", "exact"}

\* values of DESCRICOES_MATCH_MODE as configured; "None" is the unset value
RawModes ==
  {"None", "", " ", "contains", "exact", " Exact ", "EXACT", "Contains", "regex", "Regex"}

\* str.strip().lower() on the configured values
ModeStripLower(raw) ==
  CASE raw = " "       -> ""
    [] raw = " Exact " -> "exact"
    [] raw = "EXACT"   -> "exact"
    [] raw = "Contains" -> "contains"
    [] raw = "Regex"   -> "regex"
    [] OTHER           -> raw

\* line 77: (cfg.descricoes_match_mode or "contains").strip().lower()
CleanMode(raw) == ModeStripLower(IF raw \in {"None", ""} THEN "contains" ELSE raw)

\* faulty variant of ModeIsValid: every value is taken
ModeIsValid_Any(mode) == mode = mode

\* line 78: the test of the value against the two modes
ModeIsValid(mode) == mode \in {"contains", "exact"}

\* lines 77-83: the mode the scraper works with
EffectiveMode(raw) == IF ModeIsValid(CleanMode(raw)) THEN CleanMode(raw) ELSE "contains"

\* lines 78-82: the warning logged for a value that is not a mode
ModeWarnings(raw) == IF ModeIsValid(CleanMode(raw)) THEN << >> ELSE <<"match_mode_invalido">>

\* no call of _click_next_page_if_available is in progress
PagerIdle == next_controls = << >> /\ next_clicked = << >>

\* settings from which the two fields read as they are
AsConfigured ==
  [descricoes_busca |-> descricoes_busca, descricoes_match_mode |-> descricao_match_mode]

\* the keys of the locator table the session reads without a default
SelectorKeys == {"bloco", "interno", "processo", "documentos_do_processo", "remove_pup_pop"}

\* wait_seconds = max(5, cfg.manual_login_wait_seconds)
LoginWaitFloor == 5

\* alvo in descricao: alvo is a contiguous part of descricao
IsSubstring(alvo, descricao) ==
  \E i \in 0..Len(descricao) :
    /\ i + Len(alvo) <= Len(descricao)
    /\ SubSeq(descricao, i + 1, i + Len(alvo)) = alvo

\* faulty variant of _descricao_match: the mode is not looked at
_descricao_match_ContainsOnly(mode, descricao_normalizada, alvo_normalizado) ==
  IsSubstring(alvo_normalizado, descricao_normalizada)

_descricao_match(mode, descricao_normalizada, alvo_normalizado) ==
  IF mode = "exact"
  THEN descricao_normalizada = alvo_normalizado
  ELSE IsSubstring(alvo_normalizado, descricao_normalizada)

(***************************************************************************)
(* Paginated Row Collector.                                                *)
(***************************************************************************)
TxtGERADO == <<"G", "E", "R", "A", "D", "O">>
TxtRECEBIDO == <<"R", "E", "C", "E", "B", "I", "D", "O">>
TxtCONCLUIDO == <<"C", "O", "N", "C", "L", "U", "I", "D", "O">>

MinDescricaoLen == 4

_is_valid_descricao_candidate(text, numero_normalizado) ==
  LET normalized == _normalize_text(text)
  IN  /\ normalized # EmptyText
      /\ normalized # numero_normalizado
      /\ normalized \notin {TxtGERADO, TxtRECEBIDO, TxtCONCLUIDO}
      /\ Len(normalized) >= MinDescricaoLen

\* row.desc is the text of the one cell that can hold the description
_extract_descricao_from_row(row, numero_normalizado) ==
  LET text == Strip(row.desc)
  IN  IF _is_valid_descricao_candidate(text, numero_normalizado) THEN text ELSE EmptyText

\* the InternoRow built from row idx of the displayed page; link is the handle
\* of its link element, found in epoch ep on listing page shown
\* faulty variant of InternoRow: the position within the page is not kept
InternoRow_FirstIndex(row, pg, idx, ep, shown) ==
  LET numero    == _normalize_text(row.num)
      descricao == _extract_descricao_from_row(row, numero)
  IN  [ numero_interno        |-> numero,
        descricao             |-> Strip(descricao),
        descricao_normalizada |-> _normalize_text(descricao),
        link                  |-> [epoch |-> ep, page |-> shown, row |-> idx],
        page                  |-> pg,
        row_index             |-> 1 ]

InternoRow(row, pg, idx, ep, shown) ==
  LET numero    == _normalize_text(row.num)
      descricao == _extract_descricao_from_row(row, numero)
  IN  [ numero_interno        |-> numero,
        descricao             |-> Strip(descricao),
        descricao_normalizada |-> _normalize_text(descricao),
        link                  |-> [epoch |-> ep, page |-> shown, row |-> idx],
        page                  |-> pg,
        row_index             |-> idx ]

RECURSIVE CollectFrom(_, _, _, _, _, _)
\* faulty variant of CollectFrom: a stale row ends the collection of the page
CollectFrom_StopAtStale(rows, idx, pg, ep, shown, staleRows) ==
  IF idx > Len(rows) \/ idx \in staleRows THEN << >>
  ELSE IF _normalize_text(rows[idx].num) = EmptyText
    THEN CollectFrom(rows, idx + 1, pg, ep, shown, staleRows)
  ELSE <<InternoRow(rows[idx], pg, idx, ep, shown)>>
         \o CollectFrom(rows, idx + 1, pg, ep, shown, staleRows)

\* the loop over enumerate(rows, start=1), from row idx on; a row of staleRows
\* raises StaleElementReferenceException and is skipped, and so is a row
\* whose link text is empty
CollectFrom(rows, idx, pg, ep, shown, staleRows) ==
  IF idx > Len(rows) THEN << >>
  ELSE LET rest == CollectFrom(rows, idx + 1, pg, ep, shown, staleRows)
       IN  IF idx \in staleRows \/ _normalize_text(rows[idx].num) = EmptyText
           THEN rest
           ELSE <<InternoRow(rows[idx], pg, idx, ep, shown)>> \o rest

\* the table rows wait_for_elements finds on the displayed page; none (its
\* TimeoutException, answered by []) when no table row is displayed
DisplayedRows(l, shown) == IF shown \in 1..Len(l) THEN l[shown] ELSE << >>

_collect_interno_rows_current_page(l, shown, ep, pg, staleRows) ==
  CollectFrom(DisplayedRows(l, shown), 1, pg, ep, shown, staleRows)

\* the rows of a page that may go stale while it is inspected
StaleChoices(l, shown, canGoStale) ==
  {{}} \cup {{i} : i \in IF canGoStale THEN 1..Len(DisplayedRows(l, shown)) ELSE {}}

Signature(item) == <<item.numero_interno, item.descricao_normalizada>>

\* faulty variant of AppendNew: every row is kept
AppendNew_NoDedup(seenSet, acc, page_rows) ==
  [ seen      |-> seenSet \cup {<<page_rows[i].numero_interno, page_rows[i].descricao_normalizada>> :
                                 i \in 1..Len(page_rows)},
    collected |-> acc \o page_rows ]

RECURSIVE AppendNew(_, _, _)
\* the loop over page_rows: a row whose signature was seen is dropped
AppendNew(seenSet, acc, page_rows) ==
  IF page_rows = << >> THEN [seen |-> seenSet, collected |-> acc]
  ELSE LET item == Head(page_rows)
       IN  IF Signature(item) \in seenSet
           THEN AppendNew(seenSet, acc, Tail(page_rows))
           ELSE AppendNew(seenSet \cup {Signature(item)}, Append(acc, item), Tail(page_rows))

\* A next-page control as _click_next_page_if_available meets it, over all
\* candidate locators in their order: "enabled" is clicked, "disabled" looks
\* disabled (class or aria-disabled), "stale" raises when read or clicked.
CtlKinds == {"enabled", "disabled", "stale"}

\* a page that has no next page shows no enabled control
CtlChoices(hasNext) ==
  UNION {[1..n -> IF hasNext THEN CtlKinds ELSE CtlKinds \ {"enabled"}] : n \in 0..MaxCtls}

HasNextPage(l, shown) == shown \in 1..(Len(l) - 1)

\* TRUE iff a control was clicked: the first one that is neither disabled nor stale
_click_next_page_if_available(ctls) == \E i \in 1..Len(ctls) : ctls[i] = "enabled"

\* lines 598-600: the generic expressions for the next-page control, by
\* title, by aria-label and by the title of an image inside the link
GenericNextXPaths == <<"proxima_title", "proxima_aria", "proxima_img">>

\* lines 596-601: the candidates, the configured expression first; "" is
\* the None of a table without the key paginacao_proxima
NextCandidates(keys) ==
  <<IF "paginacao_proxima" \in keys THEN "paginacao_proxima" ELSE "">> \o GenericNextXPaths

\* what a control is to the call: a control with "disabled" in its class
\* and one with aria-disabled "true" are told apart here
PagerKinds == CtlKinds \cup {"aria_disabled"}

\* line 615: "disabled" in classes or aria_disabled == "true"
LooksDisabled(kind) == kind \in {"disabled", "aria_disabled"}

\* _find_elements_any_context(xpath): the controls the expression finds, in
\* document order
NextElems(ctls, xpath) ==
  SelectSeq([i \in 1..Len(ctls) |-> i], LAMBDA i : ctls[i].xpath = xpath)

\* faulty variant of FirstClickable: the first control found is clicked
FirstClickable_AnyControl(ctls, elems) == IF elems = << >> THEN 0 ELSE Head(elems)

RECURSIVE FirstClickable(_, _)
\* lines 611-622: the first of elems that does not look disabled and whose
\* attributes and click raise nothing; 0 when there is none
FirstClickable(ctls, elems) ==
  IF elems = << >> THEN 0
  ELSE IF LooksDisabled(ctls[Head(elems)].kind) \/ ctls[Head(elems)].kind = "stale"
    THEN FirstClickable(ctls, Tail(elems))
  ELSE Head(elems)

RECURSIVE ScanCandidates(_, _, _)
\* lines 603-622: the loop over the candidates not yet checked; the control
\* clicked, 0 when the loop ends without a click
ScanCandidates(candidates, checked, ctls) ==
  IF candidates = << >> THEN 0
  ELSE LET xpath == Head(candidates) IN
       IF xpath = "" \/ xpath \in checked
       THEN ScanCandidates(Tail(candidates), checked, ctls)
       ELSE LET hit == FirstClickable(ctls, NextElems(ctls, xpath))
            IN  IF hit # 0 THEN hit
                ELSE ScanCandidates(Tail(candidates), checked \cup {xpath}, ctls)

\* one call of _click_next_page_if_available on the page displayed
ClickNextPage ==
  /\ pc = "next_page"
  /\ LET candidates == NextCandidates(selectors)
         hit == ScanCandidates(candidates, {}, next_controls)
     IN  /\ next_clicked' = IF hit = 0 THEN << >> ELSE <<hit>>
         /\ epoch' = IF hit = 0 THEN epoch ELSE epoch + 1
         \* line 619 returns True after the click, line 625 False
         /\ pc' = IF hit = 0 THEN "next_false" ELSE "next_true"
  \* finally of _find_elements_any_context: switch_to.default_content()
  /\ ctx' = 0
  /\ UNCHANGED <<configVars, locateVars, flowVars, listing, curPage, flaky, sweepVars, replayVars,
                 selecionado, historyVars, next_controls>>

\* max_pages of the one call, in _open_guided_interno_by_descricao
SweepMaxPages == 10

(***************************************************************************)
(* _collect_interno_rows_with_pagination: one action per iteration of its  *)
(* while loop.                                                             *)
(***************************************************************************)
SignaturesOf(rows) == [i \in 1..Len(rows) |-> Signature(rows[i])]

\* faulty variant of PageLimitReached: one page more than the limit
PageLimitReached_OneLate(pg, limit) == pg > limit

\* line 643: "if page >= max_pages"
PageLimitReached(pg, limit) == pg >= limit

SweepPage ==
  /\ pc = "sweep"
  /\ \E staleRows \in StaleChoices(listing, curPage, flaky) :
       LET page_rows == _collect_interno_rows_current_page(listing, curPage, epoch, page, staleRows)
           acc       == AppendNew(seen, collected, page_rows)
       IN  /\ seen' = acc.seen
           /\ collected' = acc.collected
           /\ visited' = visited \o SignaturesOf(page_rows)
  \* finally: switch_to.default_content()
  /\ ctx' = 0
  /\ \E ctls \in CtlChoices(HasNextPage(listing, curPage)) :
       IF PageLimitReached(page, max_pages)
       THEN /\ warnings' = Append(warnings, "limite_de_seguranca")
            /\ pc' = "select"
            /\ UNCHANGED <<page, curPage, epoch>>
       ELSE IF ~_click_next_page_if_available(ctls)
       THEN /\ pc' = "select"
            /\ UNCHANGED <<page, curPage, epoch, warnings>>
       ELSE /\ page' = page + 1
            /\ curPage' = curPage + 1
            /\ epoch' = epoch + 1
            /\ pc' = "sweep"
            /\ UNCHANGED warnings
  /\ UNCHANGED <<pagerVars, configVars, locateVars, flowVars, listing, flaky, replayVars, selecionado, trace, clicked, staleDeref,
                 max_pages>>

(***************************************************************************)
(* Guided Selector: _open_guided_interno_by_descricao.                     *)
(***************************************************************************)
Occurrences(targets, target) ==
  Cardinality({k \in 1..Len(targets) : targets[k] = target})

RECURSIVE Repeat(_, _)
Repeat(x, n) == IF n = 0 THEN << >> ELSE <<x>> \o Repeat(x, n - 1)

RECURSIVE MatchesByTarget(_, _, _, _)
\* matches_by_target[target] after the loops over internos and over the
\* targets: the dictionary has one list per distinct target, and a row is
\* appended to it once per occurrence of the target in the list
MatchesByTarget(mode, internos, targets, target) ==
  IF internos = << >> THEN << >>
  ELSE (IF _descricao_match(mode, Head(internos).descricao_normalizada, target)
        THEN Repeat(Head(internos), Occurrences(targets, target))
        ELSE << >>)
       \o MatchesByTarget(mode, Tail(internos), targets, target)

RECURSIVE TotalMatches(_, _, _, _)
\* total_matches, summed over targets[k..]
TotalMatches(mode, internos, targets, k) ==
  IF k > Len(targets) THEN 0
  ELSE Len(MatchesByTarget(mode, internos, targets, targets[k]))
       + TotalMatches(mode, internos, targets, k + 1)

RECURSIVE FirstTargetWithMatch(_, _, _, _)
\* the loop that picks selected: index of the first target whose list is
\* not empty, from targets[k] on; 0 when there is none
FirstTargetWithMatch(mode, internos, targets, k) ==
  IF k > Len(targets) THEN 0
  ELSE IF MatchesByTarget(mode, internos, targets, targets[k]) # << >> THEN k
  ELSE FirstTargetWithMatch(mode, internos, targets, k + 1)

\* faulty variant of SelectRow: the first row, in collection order, that
\* matches any target
SelectRow_FirstRowAnyTarget(mode, internos, targets) ==
  LET hits == {i \in 1..Len(internos) :
                 \E k \in 1..Len(targets) :
                   _descricao_match(mode, internos[i].descricao_normalizada, targets[k])}
  IN  IF hits = {}
      THEN [row |-> << >>, target |-> EmptyText]
      ELSE LET i == CHOOSE h \in hits : \A g \in hits : h <= g
               k == CHOOSE a \in 1..Len(targets) :
                      /\ _descricao_match(mode, internos[i].descricao_normalizada, targets[a])
                      /\ \A b \in 1..(a - 1) :
                           ~_descricao_match(mode, internos[i].descricao_normalizada, targets[b])
           IN  [row |-> <<internos[i]>>, target |-> targets[k]]

\* selected and selected_target: << >> (None) or <<row>>, and the target
SelectRow(mode, internos, targets) ==
  LET k == FirstTargetWithMatch(mode, internos, targets, 1)
  IN  IF k = 0
      THEN [row |-> << >>, target |-> EmptyText]
      ELSE [row    |-> <<Head(MatchesByTarget(mode, internos, targets, targets[k]))>>,
            target |-> targets[k]]

\* faulty variant of ReturnFromGuided: the selected row is returned whatever
\* the replay click did
ReturnFromGuided_KeepsSelected(row) ==
  /\ selecionado' = selected
  /\ pc' = "guided_done"

ReturnFromGuided(row) ==
  /\ selecionado' = row
  /\ pc' = "guided_done"

\* faulty variant of NoTargets: the sweep starts whatever is configured
NoTargets_Never(targets) == FALSE

\* line 656: "if not self.descricoes_busca"
NoTargets(targets) == targets = << >>

\* lines 655-663: no target configured, or the sweep starts
GuidedStart ==
  /\ pc = "guided"
  /\ IF NoTargets(descricoes_busca)
     THEN /\ warnings' = Append(warnings, "descricoes_busca_vazio")
          /\ ReturnFromGuided(<< >>)
          /\ UNCHANGED sweepVars
     ELSE /\ max_pages' = SweepMaxPages
          /\ page' = 1
          /\ seen' = {}
          /\ collected' = << >>
          /\ pc' = "sweep"
          /\ UNCHANGED <<selecionado, warnings>>
  /\ UNCHANGED <<pagerVars, configVars, locateVars, flowVars, browserVars, replayVars,
                 trace, visited, clicked, staleDeref>>

\* lines 664-697: from the sweep's return to the call of _click_selected_interno
SelectTarget ==
  /\ pc = "select"
  /\ LET internos == collected
         choice   == SelectRow(descricao_match_mode, internos, descricoes_busca)
     IN  IF internos = << >>
         THEN /\ warnings' = Append(warnings, "nenhum_interno_elegivel")
              /\ ReturnFromGuided(<< >>)
              /\ UNCHANGED <<selected, selected_target>>
         ELSE IF TotalMatches(descricao_match_mode, internos, descricoes_busca, 1) = 0
         THEN /\ warnings' = Append(warnings, "nenhuma_descricao_teve_match")
              /\ ReturnFromGuided(<< >>)
              /\ UNCHANGED <<selected, selected_target>>
         ELSE IF choice.row = << >>
         THEN /\ warnings' = Append(warnings, "nenhum_item_selecionavel")
              /\ ReturnFromGuided(<< >>)
              /\ UNCHANGED <<selected, selected_target>>
         ELSE /\ selected' = choice.row
              /\ selected_target' = choice.target
              /\ pc' = "replay_reload"
              /\ UNCHANGED <<selecionado, warnings>>
  /\ UNCHANGED <<pagerVars, configVars, locateVars, flowVars, browserVars, sweepVars, current_page,
                 trace, visited, clicked, staleDeref>>

(***************************************************************************)
(* Replay: _click_selected_interno.                                        *)
(***************************************************************************)
\* lines 707-714: driver.get(list_url) and the wait for readyState; either
\* may raise WebDriverException.  internos is not read again: the locals of
\* the sweep, and its history, are dropped here.
ReplayReload ==
  /\ pc = "replay_reload"
  /\ max_pages' = 0 /\ page' = 0 /\ seen' = {} /\ collected' = << >> /\ visited' = << >>
  /\ \/ /\ trace' = trace \o <<"get", "err_reload">>
        /\ ReturnFromGuided(<< >>)
        /\ UNCHANGED <<browserVars, current_page>>
     \/ /\ \E l \in ReloadVariants(listing, Head(selected).page) : listing' = l
        /\ curPage' = 1
        /\ epoch' = epoch + 1
        /\ current_page' = 1
        /\ trace' = Append(trace, "get")
        /\ pc' = "replay_walk"
        /\ UNCHANGED <<ctx, flaky, selecionado>>
  /\ UNCHANGED <<pagerVars, configVars, locateVars, flowVars, selected, selected_target, clicked, staleDeref, warnings>>

\* faulty variant of MustAdvance: one advance too many
MustAdvance_OffByOne(cur, sel) == cur <= sel.page

\* the guard of the loop of lines 715-723
MustAdvance(cur, sel) == cur < sel.page

\* faulty variant of AdvanceFailureReport: the report of the missing row
AdvanceFailureReport_AsNotFound == "err_not_found"

\* the error logged at lines 717-721, "Nao consegui navegar ate a pagina do
\* item selecionado"; lines 751-756 log "Item selecionado nao foi encontrado"
AdvanceFailureReport == "err_advance"

\* one iteration of the loop of lines 715-723
ReplayAdvance ==
  /\ pc = "replay_walk"
  /\ MustAdvance(current_page, Head(selected))
  /\ \E ctls \in CtlChoices(HasNextPage(listing, curPage)) :
       IF ~_click_next_page_if_available(ctls)
       THEN /\ trace' = Append(trace, AdvanceFailureReport)
            /\ ReturnFromGuided(<< >>)
            /\ UNCHANGED <<curPage, epoch, current_page>>
       ELSE /\ trace' = Append(trace, "next")
            /\ curPage' = curPage + 1
            /\ epoch' = epoch + 1
            /\ current_page' = current_page + 1
            /\ UNCHANGED <<pc, selecionado>>
  /\ ctx' = 0
  /\ UNCHANGED <<pagerVars, configVars, locateVars, flowVars, listing, flaky, sweepVars, selected, selected_target,
                 visited, clicked, staleDeref, warnings>>

\* faulty variant of SameSignature: the number alone identifies the row
SameSignature_NumberOnly(item, sel) ==
  item.numero_interno = sel.numero_interno

SameSignature(item, sel) ==
  /\ item.numero_interno = sel.numero_interno
  /\ item.descricao_normalizada = sel.descricao_normalizada

RECURSIVE FirstWithSignature(_, _)
\* the loop of lines 727-731: << >> or <<item>>, the first row of page_rows
\* with the signature of sel
FirstWithSignature(page_rows, sel) ==
  IF page_rows = << >> THEN << >>
  ELSE IF SameSignature(Head(page_rows), sel) THEN <<Head(page_rows)>>
  ELSE FirstWithSignature(Tail(page_rows), sel)

\* faulty variant of HandleToClick: the handle stored in the selected row
HandleToClick_Stored(item, sel) == sel.link

\* the handle line 732 clicks
HandleToClick(item, sel) == item.link

\* lines 725-757
ReplayClick ==
  /\ pc = "replay_walk"
  /\ ~MustAdvance(current_page, Head(selected))
  /\ \E staleRows \in StaleChoices(listing, curPage, flaky), clickRaises \in BOOLEAN :
       LET sel       == Head(selected)
           page_rows == _collect_interno_rows_current_page(listing, curPage, epoch, sel.page, staleRows)
           hit       == FirstWithSignature(page_rows, sel)
           handle    == HandleToClick(Head(hit), sel)
       IN  IF hit = << >>
           THEN /\ trace' = trace \o <<"collect", "err_not_found">>
                /\ ReturnFromGuided(<< >>)
                /\ UNCHANGED <<curPage, epoch, clicked, staleDeref>>
           ELSE IF handle.epoch # epoch \/ clickRaises
           THEN /\ trace' = trace \o <<"collect", "err_click">>
                /\ staleDeref' = (staleDeref \/ handle.epoch # epoch)
                /\ ReturnFromGuided(<< >>)
                /\ UNCHANGED <<curPage, epoch, clicked>>
           ELSE /\ trace' = trace \o <<"collect", "click">>
                /\ clicked' = <<listing[handle.page][handle.row]>>
                /\ curPage' = 0
                /\ epoch' = epoch + 1
                /\ ReturnFromGuided(selected)
                /\ UNCHANGED staleDeref
  \* finally: switch_to.default_content()
  /\ ctx' = 0
  /\ UNCHANGED <<pagerVars, configVars, locateVars, flowVars, listing, flaky, sweepVars, replayVars, visited, warnings>>

(***************************************************************************)
(* Extraction Session, first part: run_full_flow up to the listing.        *)
(***************************************************************************)
\* faulty variant of Raise: the exception is recorded and the run completes
Raise_Completes(exception) ==
  /\ error' = exception
  /\ pc' = "Done"

Raise(exception) ==
  /\ error' = exception
  /\ pc' = "Error"

Max(a, b) == IF a >= b THEN a ELSE b

\* values of cfg.manual_login_wait_seconds
LoginWaitChoices == {3, 6}

LoginScreens == {"login", "gateway", "home"}

\* lines 91-95: the base URL is required, then opened
StartFlow ==
  /\ pc = "start"
  /\ \E hasUrl \in BOOLEAN :
       IF ~hasUrl
       THEN /\ Raise("config_base_url")
            /\ UNCHANGED <<epoch, screen>>
       ELSE /\ epoch' = epoch + 1
            /\ screen' = "login"
            /\ pc' = "login"
            /\ UNCHANGED error
  /\ UNCHANGED <<pagerVars, configVars, locateVars, listing, curPage, ctx, flaky, sweepVars, replayVars, selecionado,
                 historyVars, menuIn, now, deadline, windowVars, processVars, expandVars,
                 processos, proc_i, found, result>>

\* lines 97-100: _wait_for_manual_login up to its call of
\* _wait_for_post_login_ready and the first lines of that, or _login_if_possible
LoginStart ==
  /\ pc = "login"
  /\ \E manual \in BOOLEAN, cfgWait \in LoginWaitChoices :
       IF manual
       THEN IF "bloco" \notin selectors
            THEN \* lines 303-305: "seguindo sem validacao de login"
                 /\ warnings' = Append(warnings, "login_sem_validacao")
                 /\ pc' = "popup"
                 /\ UNCHANGED <<now, deadline, screen, ctx>>
            ELSE /\ deadline' = Max(LoginWaitFloor, cfgWait)
                 /\ now' = 0
                 /\ pc' = "login_poll"
                 /\ UNCHANGED <<screen, ctx, warnings>>
       ELSE /\ screen' \in LoginScreens
            /\ ctx' = 0
            /\ pc' = "popup"
            /\ UNCHANGED <<now, deadline, warnings>>
  /\ UNCHANGED <<pagerVars, configVars, locateVars, listing, curPage, epoch, flaky, sweepVars, replayVars, selecionado,
                 trace, visited, clicked, staleDeref, menuIn, windowVars, processVars, expandVars,
                 loopVars>>

\* lines 328-340: the markers are looked for in the title, the url and the
\* head of the markup, and a driver error while reading them is "no"
_is_gateway_timeout_page(shown, readable) == readable /\ shown = "gateway"

\* faulty variant of PollSeconds: a poll may take no time at all
PollSeconds_NoSleep == 0..2

\* line 321: "time.sleep(1)" ends each poll, which so takes a second or more
PollSeconds == 1..2

\* faulty variant of BudgetSpent: one more poll at the deadline
BudgetSpent_OneLate(t, limit) == t > limit

\* line 310: the loop goes on "while time.time() < deadline"
BudgetSpent(t, limit) == ~(t < limit)

\* faulty variant of LoginPoll: a gateway-error page is refreshed and the
\* polling goes on
LoginPoll_RefreshOnGateway ==
  /\ pc = "login_poll"
  /\ IF BudgetSpent(now, deadline)
     THEN /\ Raise("login_not_confirmed")
          /\ UNCHANGED <<screen, now, deadline, trace>>
     ELSE \E s \in LoginScreens, readable \in BOOLEAN, dt \in PollSeconds :
            /\ screen' = s
            /\ IF s = "home"
               THEN /\ pc' = "popup"
                    /\ now' = 0 /\ deadline' = 0
                    /\ UNCHANGED <<error, trace>>
               ELSE IF _is_gateway_timeout_page(s, readable)
               THEN /\ trace' = trace \o <<"gateway", "refresh">>
                    /\ now' = now + dt
                    /\ UNCHANGED <<pc, error, deadline>>
               ELSE /\ now' = now + dt
                    /\ UNCHANGED <<pc, error, deadline, trace>>
  /\ UNCHANGED <<pagerVars, configVars, locateVars, browserVars, sweepVars, replayVars, selecionado,
                 visited, clicked, staleDeref, warnings, menuIn, windowVars, processVars, expandVars,
                 processos, proc_i, found, result>>

\* one iteration of the loop of lines 310-326; the page may have changed
\* since the last poll, and an iteration takes a second or more
LoginPoll ==
  /\ pc = "login_poll"
  /\ IF BudgetSpent(now, deadline)
     THEN /\ Raise("login_not_confirmed")
          /\ UNCHANGED <<screen, now, deadline, trace>>
     ELSE \E s \in LoginScreens, readable \in BOOLEAN, dt \in PollSeconds :
            /\ screen' = s
            /\ IF s = "home"
               THEN /\ pc' = "popup"
                    /\ now' = 0 /\ deadline' = 0
                    /\ UNCHANGED <<error, trace>>
               ELSE IF _is_gateway_timeout_page(s, readable)
               THEN /\ trace' = Append(trace, "gateway")
                    /\ Raise("login_504")
                    /\ UNCHANGED <<now, deadline>>
               ELSE /\ now' = now + dt
                    /\ UNCHANGED <<pc, error, deadline, trace>>
  /\ UNCHANGED <<pagerVars, configVars, locateVars, browserVars, sweepVars, replayVars, selecionado,
                 visited, clicked, staleDeref, warnings, menuIn, windowVars, processVars, expandVars,
                 processos, proc_i, found, result>>

\* _close_popup_if_exists: the click is attempted when the locator is
\* configured, and whatever it raises is dropped
ClosePopup ==
  /\ pc = "popup"
  /\ pc' = "menu"
  /\ UNCHANGED <<pagerVars, configVars, locateVars, browserVars, sweepVars, replayVars, selecionado,
                 historyVars, flowVars>>

\* the contexts that may hold the menu controls of the home screen
MenuPlaces == {{}, {0}, {1}}

\* wait_for_clickable: WebDriverWait on the active context alone
wait_for_clickable(active, where) == active \in where

\* _click_first_clickable: TRUE iff one of the candidates was clicked; the
\* candidates all name the control that is in the contexts of where
_click_first_clickable(active, where) == wait_for_clickable(active, where)

\* the listings the session is run on
ScenarioListings ==
  { << >>,
    << <<[num |-> TxtNum1, desc |-> TxtBetaX], [num |-> TxtNum2, desc |-> TxtAlphaYRaw]>> >>,
    << <<[num |-> TxtNum1, desc |-> TxtBetaX], [num |-> TxtNum1, desc |-> TxtBetaX]>>,
       <<[num |-> TxtNum2, desc |-> TxtALPHA]>> >>,
    << <<[num |-> TxtNum1, desc |-> TxtBetaX]>>, <<[num |-> TxtNum1, desc |-> TxtBetaX]>>,
       <<[num |-> TxtNum2, desc |-> TxtAlphaYRaw]>> >> }

\* faulty variant of MenuSelectorsMissing: without the block locator the
\* menu is opened through the generic candidates
MenuSelectorsMissing_InternoOnly(keys) == "interno" \notin keys

\* line 407: "if not (x_bloco and x_interno)"
MenuSelectorsMissing(keys) == ~({"bloco", "interno"} \subseteq keys)

\* _open_interno_menu; the home screen may still come up while
\* wait_for_clickable waits
OpenInternoMenu ==
  /\ pc = "menu"
  /\ IF MenuSelectorsMissing(selectors)
     THEN /\ Raise("menu_selectors")
          /\ UNCHANGED <<screen, menuIn, listing, curPage, epoch, flaky, trace>>
     ELSE \E where \in MenuPlaces, s \in {screen, "home"}, internoShown \in BOOLEAN :
            /\ menuIn' = where
            /\ IF ~(s = "home" /\ _click_first_clickable(ctx, where))
               THEN /\ Raise("menu_timeout")
                    /\ screen' = s
                    /\ UNCHANGED <<listing, curPage, epoch, flaky, trace>>
               ELSE IF ~internoShown
               THEN /\ Raise("menu_timeout")
                    /\ screen' = s
                    /\ trace' = Append(trace, "click_bloco")
                    /\ UNCHANGED <<listing, curPage, epoch, flaky>>
               ELSE /\ trace' = trace \o <<"click_bloco", "click_interno">>
                    /\ screen' = "listing"
                    /\ listing' \in ScenarioListings
                    /\ flaky' \in BOOLEAN
                    /\ curPage' = 1
                    /\ epoch' = epoch + 1
                    /\ pc' = "guided"
                    /\ UNCHANGED error
  /\ UNCHANGED <<pagerVars, configVars, locateVars, ctx, sweepVars, replayVars, selecionado,
                 visited, clicked, staleDeref, warnings, now, deadline, windowVars, processVars,
                 expandVars, processos, proc_i, found, result>>

(***************************************************************************)
(* Extraction Session, second part: the loop over the processes.           *)
(***************************************************************************)
Min(a, b) == IF a <= b THEN a ELSE b

Last(s) == s[Len(s)]

Range(s) == {s[i] : i \in 1..Len(s)}

Take(s, n) == SubSeq(s, 1, Min(n, Len(s)))

MinOf(S) == CHOOSE x \in S : \A y \in S : x <= y

\* the characters of the document and process texts, by code point
CharOrder == <<" ", "1", "2", "D", "P", "d">>

CharCode(c) == CHOOSE i \in 1..Len(CharOrder) : CharOrder[i] = c

RECURSIVE TextLess(_, _)
\* a < b on str
TextLess(a, b) ==
  IF b = << >> THEN FALSE
  ELSE IF a = << >> THEN TRUE
  ELSE IF Head(a) = Head(b) THEN TextLess(Tail(a), Tail(b))
  ELSE CharCode(Head(a)) < CharCode(Head(b))

\* faulty variant of Sorted: an enumeration whose first two values are out of
\* order
Sorted_OutOfOrder(S) ==
  CHOOSE r \in [1..Cardinality(S) -> S] :
    /\ Range(r) = S
    /\ Cardinality(S) >= 2 => TextLess(r[2], r[1])

RECURSIVE Sorted(_)
\* sorted(S) of a set of str
Sorted(S) ==
  IF S = {} THEN << >>
  ELSE LET least == CHOOSE x \in S : \A y \in S \ {x} : TextLess(x, y)
       IN <<least>> \o Sorted(S \ {least})

TxtP1 == <<"P", "1">>
TxtP2 == <<"P", "2">>

\* what the page of the selected interno may list as process entries
ProcEntryChoices ==
  { << >>, <<TxtBlank>>, <<TxtP1>>, <<<<" ">> \o TxtP1, TxtBlank, TxtP2>> }

\* values of the parameter max_processos_por_interno
MaxProcessosChoices == {1, 5}

\* lines 790-796 on the texts of the located elements
_list_processos(entries) ==
  SelectSeq([i \in 1..Len(entries) |-> Strip(entries[i])], LAMBDA text : text # EmptyText)

\* faulty variant of NotSelecionado: the flow goes on without a selection
NotSelecionado_Never(row) == FALSE

\* line 104: "if not selecionado"
NotSelecionado(row) == row = << >>

\* lines 104-114: the result of the guided selection is tested, and the
\* processes are listed; the locals of the guided selection are gone
AfterGuided ==
  /\ pc = "guided_done"
  /\ IF NotSelecionado(selecionado)
     THEN /\ warnings' = Append(warnings, "nenhum_interno_selecionado")
          /\ result' = <<Sorted(found)>>
          /\ pc' = "NoSelection"
          /\ UNCHANGED <<error, procEntries, processos, proc_i, screen, ctx>>
     ELSE IF "processo" \notin selectors
     THEN /\ Raise("processo_selector")
          /\ UNCHANGED <<result, procEntries, processos, proc_i, screen, ctx, warnings>>
     ELSE \E entries \in ProcEntryChoices, max_processos_por_interno \in MaxProcessosChoices :
            /\ procEntries' = entries
            /\ screen' = "interno"
            /\ ctx' = 0
            /\ UNCHANGED warnings
            /\ IF entries = << >>
               THEN /\ Raise("list_processos_timeout")
                    /\ UNCHANGED <<result, processos, proc_i>>
               ELSE /\ processos' = Take(_list_processos(entries), max_processos_por_interno)
                    /\ proc_i' = 1
                    /\ pc' = "proc_open"
                    /\ UNCHANGED <<result, error>>
  /\ max_pages' = 0 /\ page' = 0 /\ seen' = {} /\ collected' = << >>
  /\ selected' = << >> /\ selected_target' = EmptyText /\ current_page' = 0
  /\ visited' = << >>
  /\ UNCHANGED <<pagerVars, configVars, locateVars, listing, curPage, epoch, flaky, selecionado,
                 trace, clicked, staleDeref, menuIn, now, deadline, windowVars,
                 tree, arvore, expandVars, found>>

\* most windows one click opens
MaxNewWindows == 2

\* wait_for_elements on the process locator: the entries shown while it
\* polls, which may be none, or the entries without the one looked for
ShownChoices(entries, processo_text) ==
  {entries, << >>, SelectSeq(entries, LAMBDA text : Strip(text) # processo_text)}

\* the handles wait_for_elements returns at epoch ep
ProcessHandles(ep, shown) == [i \in 1..Len(shown) |-> [epoch |-> ep, text |-> shown[i]]]

\* the value of curWin when the window that was focused is closed and no
\* other was switched to
NoWindow == 0

NewHandles(open, k) == [i \in 1..k |-> Last(open) + i]

\* faulty variant of SwitchTargets: any handle open after the click
SwitchTargets_AnyHandle(handles_before, handles_after) == Range(handles_after)

\* lines 821-828: new_handles, of which the first in an order the set type
\* does not fix is switched to
SwitchTargets(handles_before, handles_after) ==
  Range(handles_after) \ Range(handles_before)

\* the trees of a process window: a node has a parent (0 at the top), and
\* is a folder, open or closed, or a document with a text
Folder(parent, open) == [parent |-> parent, folder |-> TRUE, open |-> open, text |-> EmptyText]
Doc(parent, text) == [parent |-> parent, folder |-> FALSE, open |-> FALSE, text |-> text]
TxtD1 == <<"D", "1">>
TxtD2 == <<"D", "2">>
Txtd1Raw == <<" ", "d", "1", " ">>

Trees ==
  { << >>,
    <<Doc(0, TxtD1)>>,
    <<Folder(0, FALSE), Doc(1, Txtd1Raw), Doc(0, TxtD2)>>,
    <<Folder(0, FALSE), Doc(1, TxtD1), Folder(0, FALSE), Doc(3, TxtD2)>>,
    <<Folder(0, FALSE), Folder(1, FALSE), Doc(2, TxtD1), Doc(1, TxtBlank)>> }

\* _open_processo for processos[proc_i]; an exception leaves run_full_flow,
\* whose loop has no handler
OpenProcesso ==
  /\ pc = "proc_open"
  /\ proc_i <= Len(processos)
  /\ LET processo_text == processos[proc_i] IN
     \E shown \in (IF screen = "interno" THEN ShownChoices(procEntries, processo_text)
                   ELSE {<< >>}),
        k \in 0..MaxNewWindows :
       LET elems == ProcessHandles(epoch, shown)
           hits == {j \in 1..Len(elems) : Strip(elems[j].text) = processo_text}
       IN  IF curWin = NoWindow
           \* no window is focused: the first driver call of line 189 raises
           THEN /\ Raise("no_such_window")
                /\ UNCHANGED <<ctx, windows, curWin, epoch, screen, tree, arvore,
                               staleDeref, trace>>
           ELSE /\ ctx' = 0
                /\ IF elems = << >>
                   THEN /\ Raise("open_processo_timeout")
                        /\ UNCHANGED <<windows, curWin, epoch, screen, tree, arvore,
                                       staleDeref, trace>>
                   ELSE IF hits = {}
                   THEN /\ Raise("open_processo_not_found")
                        /\ UNCHANGED <<windows, curWin, epoch, screen, tree, arvore,
                                       staleDeref, trace>>
                   ELSE LET elem == elems[MinOf(hits)]
                            new_handles == NewHandles(windows, k)
                        IN  /\ staleDeref' = (staleDeref \/ elem.epoch # epoch)
                            /\ trace' = Append(trace, "click_processo")
                            /\ windows' = windows \o new_handles
                            /\ IF new_handles = << >>
                               THEN /\ Raise("open_processo_no_window")
                                    /\ UNCHANGED <<curWin, epoch, screen, tree, arvore>>
                               ELSE /\ curWin' \in SwitchTargets(windows, windows \o new_handles)
                                    /\ epoch' = epoch + 1
                                    /\ screen' = "processo"
                                    /\ tree' \in Trees
                                    /\ arvore' \in BOOLEAN
                                    /\ pc' = "proc_collect"
                                    /\ UNCHANGED error
  /\ UNCHANGED <<pagerVars, configVars, locateVars, listing, curPage, flaky, sweepVars, replayVars, selecionado,
                 visited, clicked, warnings, menuIn, now, deadline, procEntries, expandVars,
                 processos, proc_i, found, result>>

\* the max_cycles of the call at line 850
ExpandMaxCycles == 15

\* lines 843-850: without the document locator the collection is skipped
CollectStart ==
  /\ pc = "proc_collect"
  /\ IF "documentos_do_processo" \notin selectors
     THEN /\ pc' = "proc_close"
          /\ UNCHANGED expandVars
     ELSE /\ max_cycles' = ExpandMaxCycles
          /\ cycle' = 1
          /\ total_clicked' = 0
          /\ previous_doc_count' = -1
          /\ doc_count' = -1
          /\ expand_errors' = FALSE
          /\ pc' = "expand"
  /\ UNCHANGED <<pagerVars, configVars, locateVars, browserVars, sweepVars, replayVars, selecionado, historyVars,
                 loginVars, windowVars, processVars, loopVars>>

RECURSIVE Visible(_, _)
\* a node is displayed when every folder above it is open
Visible(t, n) ==
  t[n].parent = 0 \/ (t[t[n].parent].open /\ Visible(t, t[n].parent))

\* XPATH_PASTAS_FECHADAS: the displayed closed folders, in document order
ClosedIcons(t) ==
  SelectSeq([n \in 1..Len(t) |-> n],
            LAMBDA n : t[n].folder /\ ~t[n].open /\ Visible(t, n))

\* the number of displayed node labels
DocCount(t) == Cardinality({n \in 1..Len(t) : Visible(t, n)})

OpenFolder(t, n) == [t EXCEPT ![n].open = TRUE]

RECURSIVE ClickLoop(_, _, _, _, _)
\* lines 919-937 from index idx on (idx counts from 1 here): the closed
\* folders are found again before each click, and the click on the ones in
\* failing raises
ClickLoop(t, idx, n, failing, clicks) ==
  IF idx > n THEN [tree |-> t, clicked |-> clicks]
  ELSE LET current_closed == ClosedIcons(t) IN
       IF idx > Len(current_closed) \/ idx \in failing
       THEN ClickLoop(t, idx + 1, n, failing, clicks)
       ELSE ClickLoop(OpenFolder(t, current_closed[idx]), idx + 1, n, failing, clicks + 1)

\* the clicks that may raise in a cycle over n icons
FailChoices(n) == {{}, {1}, 1..n}

\* the index of ifrArvore among the frames of the process window
ArvoreFrame == 1

\* faulty variant of CycleLimitReached: the loop has no ceiling
CycleLimitReached_Never(n, limit) == FALSE

\* range(1, max_cycles + 1) is exhausted when cycle n is due
CycleLimitReached(n, limit) == n > limit

\* faulty variant of _switch_to_ifr_arvore: the frame is taken to be entered
_switch_to_ifr_arvore_Always(has_frame) == TRUE

\* lines 870-886: True when the frame is found by id or by name
_switch_to_ifr_arvore(has_frame) == has_frame

\* faulty variant of Converged: the count of the cycle before is not asked
Converged_ThisCycleOnly(current, previous, start) == current = start

\* line 952: current_doc_count == previous_doc_count == doc_count
Converged(current, previous, start) == current = previous /\ previous = start

\* len(find_elements(...)) of lines 898-900 and 948-950: -1 when the
\* search raises
CountOrError(t, raises) == IF raises THEN -1 ELSE DocCount(t)

\* one cycle of _expand_all_pastas; it returns to _collect_documentos with
\* the context left where the cycle put it
ExpandCycle ==
  /\ pc = "expand"
  /\ IF CycleLimitReached(cycle, max_cycles)
     THEN /\ pc' = "proc_docs"
          /\ UNCHANGED <<ctx, tree, cycle, total_clicked, previous_doc_count, doc_count, expand_errors>>
     ELSE IF ~_switch_to_ifr_arvore(arvore)
     THEN /\ ctx' = 0
          /\ pc' = "proc_docs"
          /\ UNCHANGED <<tree, cycle, total_clicked, previous_doc_count, doc_count, expand_errors>>
     ELSE \E findFails \in BOOLEAN, failing \in FailChoices(Len(ClosedIcons(tree))),
             countFails \in BOOLEAN, recountFails \in BOOLEAN :
            LET start_count == CountOrError(tree, countFails)
                closed == ClosedIcons(tree)
                after == ClickLoop(tree, 1, Len(closed), failing, 0)
                current_doc_count == CountOrError(after.tree, recountFails)
            IN  /\ ctx' = ArvoreFrame
                /\ doc_count' = start_count
                /\ IF findFails \/ closed = << >>
                   THEN /\ pc' = "proc_docs"
                        /\ expand_errors' = (expand_errors \/ findFails \/ countFails)
                        /\ UNCHANGED <<tree, cycle, total_clicked, previous_doc_count>>
                   ELSE /\ tree' = after.tree
                        /\ total_clicked' = total_clicked + after.clicked
                        /\ IF after.clicked = 0
                           THEN /\ pc' = "proc_docs"
                                /\ expand_errors' = (expand_errors \/ countFails
                                                       \/ failing # {})
                                /\ UNCHANGED <<cycle, previous_doc_count>>
                           ELSE /\ expand_errors' = (expand_errors \/ countFails
                                                       \/ recountFails \/ failing # {})
                                /\ IF Converged(current_doc_count, previous_doc_count, start_count)
                                   THEN /\ pc' = "proc_docs"
                                        /\ UNCHANGED <<cycle, previous_doc_count>>
                                   ELSE /\ previous_doc_count' = current_doc_count
                                        /\ cycle' = cycle + 1
                                        /\ UNCHANGED pc
  /\ UNCHANGED <<pagerVars, configVars, locateVars, listing, curPage, epoch, flaky, sweepVars, replayVars,
                 selecionado, historyVars, loginVars, windowVars, procEntries, arvore,
                 loopVars, max_cycles>>

\* lines 851-868: the documents displayed in the tree are located and their
\* texts kept; a timeout of the search is logged, and the default document
\* is entered in every case
CollectDocs ==
  /\ pc = "proc_docs"
  /\ \E docsLocated \in BOOLEAN :
       LET elems == {n \in 1..Len(tree) : ~tree[n].folder /\ Visible(tree, n)}
           texts == {Strip(tree[n].text) : n \in elems} \ {EmptyText}
       IN  found' = IF arvore /\ docsLocated THEN found \cup texts ELSE found
  /\ ctx' = 0
  /\ pc' = "proc_close"
  \* the locals of the expansion are gone
  /\ max_cycles' = 0 /\ cycle' = 0 /\ total_clicked' = 0 /\ previous_doc_count' = -1 /\ doc_count' = -1
  /\ expand_errors' = FALSE
  /\ UNCHANGED <<pagerVars, configVars, locateVars, listing, curPage, epoch, flaky, sweepVars, replayVars,
                 selecionado, historyVars, loginVars, windowVars, processVars,
                 processos, proc_i, result, error>>

\* where a driver error stops _close_current_tab_and_back: nowhere, at the
\* calls of lines 964-965 (nothing was closed), or at those of lines 966-967
\* (the window is closed and no window was switched to)
CloseFailures == {"none", "close", "switch"}

\* _close_current_tab_and_back, whose driver errors are logged and dropped,
\* and the step of the loop to the next process
CloseTab ==
  /\ pc = "proc_close"
  /\ \E failure \in CloseFailures :
       IF Len(windows) > 1 /\ failure # "close"
       THEN LET remaining == SelectSeq(windows, LAMBDA h : h # curWin)
                switched  == failure = "none" /\ remaining # << >>
            IN  /\ windows' = remaining
                /\ curWin' = IF switched THEN Last(remaining) ELSE NoWindow
                /\ epoch' = epoch + 1
                /\ screen' = IF ~switched THEN "none"
                             ELSE IF Last(remaining) = Head(remaining) THEN "interno"
                             ELSE "processo"
                /\ trace' = Append(trace, "close_window")
       ELSE UNCHANGED <<windows, curWin, epoch, screen, trace>>
  /\ proc_i' = proc_i + 1
  /\ pc' = "proc_open"
  /\ UNCHANGED <<pagerVars, configVars, locateVars, listing, curPage, ctx, flaky, sweepVars, replayVars,
                 selecionado, visited, clicked, staleDeref, warnings, menuIn, now, deadline, processVars, expandVars,
                 processos, found, result, error>>

\* lines 120-125: _back_to_interno_list and the sorted result
FinishFlow ==
  /\ pc = "proc_open"
  /\ proc_i > Len(processos)
  /\ \E backs \in BOOLEAN :
       IF backs /\ curWin # NoWindow
       THEN epoch' = epoch + 1 /\ screen' = "listing"
       ELSE UNCHANGED <<epoch, screen>>
  /\ result' = <<Sorted(found)>>
  /\ pc' = "Done"
  /\ UNCHANGED <<pagerVars, configVars, locateVars, listing, curPage, ctx, flaky, sweepVars, replayVars,
                 selecionado, historyVars, menuIn, now, deadline, windowVars, processVars,
                 expandVars, processos, proc_i, found, error>>

(***************************************************************************)
(* Locator: wait_for_elements followed statement by statement.  The clock  *)
(* counts the longest sleep of the loop, half a second.                    *)
(***************************************************************************)
\* values of the effective timeout
LocateTimeouts == {2, 3}

\* the finally clause of lines 259-264 on the active context
RestoreOnReturn_Never(restore, active) == active

RestoreOnReturn(restore, active) == IF restore THEN 0 ELSE active

\* faulty variant of LocateBegin: the search starts without the wait for
\* readyState
LocateBegin_NoReadyWait ==
  /\ pc = "locate"
  /\ \E effective_timeout \in LocateTimeouts :
       /\ deadline' = now + effective_timeout
       /\ pc' = "loc_poll"
       /\ UNCHANGED <<now, doc_ready>>
  /\ UNCHANGED <<pagerVars, configVars, browserVars, sweepVars, replayVars, selecionado, historyVars,
                 screen, menuIn, windowVars, processVars, expandVars, loopVars,
                 matchDefault, frameMatch, restore_context, iframes, frame_idx, located,
                 switches, roundOk, swept>>

\* lines 188-190: _wait_for_document_ready raises TimeoutException when
\* readyState is not "complete" within the timeout (lines 162-169), before
\* the try block; else the deadline is set
LocateBegin ==
  /\ pc = "locate"
  /\ \E effective_timeout \in LocateTimeouts, complete \in BOOLEAN :
       IF complete
       THEN /\ doc_ready' = TRUE
            /\ deadline' = now + effective_timeout
            /\ pc' = "loc_poll"
            /\ UNCHANGED now
       ELSE /\ now' = now + effective_timeout
            /\ pc' = "loc_not_ready"
            /\ UNCHANGED <<deadline, doc_ready>>
  /\ UNCHANGED <<pagerVars, configVars, browserVars, sweepVars, replayVars, selecionado, historyVars,
                 screen, menuIn, windowVars, processVars, expandVars, loopVars,
                 matchDefault, frameMatch, restore_context, iframes, frame_idx, located,
                 switches, roundOk, swept>>

\* lines 194-200: the test of the loop, the search in the default document
\* and the count of the frames; lines 248-264 when the deadline has passed
LocatePoll ==
  /\ pc = "loc_poll"
  /\ IF ~(now < deadline)
     THEN /\ ctx' = RestoreOnReturn(restore_context, ctx)
          /\ pc' = "loc_timeout"
          /\ UNCHANGED <<located, iframes, frame_idx, switches, roundOk>>
     ELSE /\ switches' = <<0>>
          /\ IF matchDefault
             THEN /\ located' = <<0>>
                  /\ ctx' = RestoreOnReturn(restore_context, 0)
                  /\ pc' = "loc_done"
                  /\ UNCHANGED <<iframes, frame_idx, roundOk>>
             ELSE /\ iframes' = Len(frameMatch)
                  /\ frame_idx' = 1
                  /\ roundOk' = TRUE
                  /\ ctx' = 0
                  /\ pc' = "loc_frame"
                  /\ UNCHANGED located
  /\ UNCHANGED <<pagerVars, configVars, listing, curPage, epoch, flaky, sweepVars, replayVars,
                 selecionado, historyVars, screen, menuIn, now, deadline, windowVars,
                 processVars, expandVars, loopVars, matchDefault, frameMatch,
                 restore_context, swept, doc_ready>>

\* what an attempt on a frame may meet: the frame is entered and searched,
\* it is no longer among the frames, entering it raises, or the search in
\* it raises
FrameOutcomes == {"searched", "gone", "raises_outside", "raises_inside"}

\* faulty variant of AfterFrameError: the error of a frame ends the call
AfterFrameError_Fails == "loc_timeout"

\* lines 216-218 and 237-244: a frame that is gone, or an exception raised
\* on the way into a frame or in it, goes on with the next frame ("continue")
AfterFrameError == "loc_frame"

\* lines 209-246: one turn of the loop over the frames (frame_idx, the idx of
\* the source, counts from 1 here), or the sleep that ends the round
LocateFrame ==
  /\ pc = "loc_frame"
  /\ IF frame_idx > iframes \/ now >= deadline
     THEN /\ now' = now + Min(1, Max(0, deadline - now))
          /\ swept' = (swept \/ (frame_idx > iframes /\ roundOk))
          /\ pc' = "loc_poll"
          /\ UNCHANGED <<ctx, frame_idx, located, switches, roundOk>>
     ELSE \E outcome \in FrameOutcomes, dt \in 0..1 :
            /\ now' = now + dt
            /\ UNCHANGED swept
            /\ IF outcome = "searched"
               THEN /\ switches' = switches \o <<0, frame_idx>>
                    /\ IF frameMatch[frame_idx]
                       THEN /\ located' = <<frame_idx>>
                            /\ ctx' = RestoreOnReturn(restore_context, frame_idx)
                            /\ pc' = "loc_done"
                            /\ UNCHANGED <<frame_idx, roundOk>>
                       ELSE /\ ctx' = frame_idx
                            /\ frame_idx' = frame_idx + 1
                            /\ UNCHANGED <<pc, located, roundOk>>
               ELSE /\ switches' = switches \o (IF outcome = "raises_inside"
                                                THEN <<0, frame_idx>> ELSE <<0>>)
                    /\ ctx' = IF outcome = "raises_inside" THEN frame_idx ELSE 0
                    /\ frame_idx' = frame_idx + 1
                    /\ roundOk' = FALSE
                    /\ pc' = AfterFrameError
                    /\ UNCHANGED located
  /\ UNCHANGED <<pagerVars, configVars, listing, curPage, epoch, flaky, sweepVars, replayVars,
                 selecionado, historyVars, screen, menuIn, deadline, windowVars,
                 processVars, expandVars, loopVars, matchDefault, frameMatch,
                 restore_context, iframes, doc_ready>>

(***************************************************************************)
(* The guided selection alone, from the listing page on.                   *)
(***************************************************************************)
\* no call of wait_for_elements is being followed
LocateIdle ==
  /\ matchDefault = FALSE /\ frameMatch = << >> /\ restore_context = TRUE
  /\ iframes = 0 /\ frame_idx = 0 /\ located = << >>
  /\ switches = << >> /\ roundOk = FALSE /\ swept = FALSE /\ doc_ready = FALSE

GuidedEntry ==
  /\ LocateIdle
  /\ driver = "open"
  /\ selectors = SelectorKeys
  /\ screen = "listing" /\ menuIn = {0} /\ now = 0 /\ deadline = 0
  /\ windows = <<1>> /\ curWin = 1
  /\ procEntries = << >> /\ tree = << >> /\ arvore = FALSE
  /\ processos = << >> /\ proc_i = 0
  /\ max_cycles = 0 /\ cycle = 0 /\ total_clicked = 0 /\ previous_doc_count = -1 /\ doc_count = -1
  /\ expand_errors = FALSE
  /\ found = {} /\ result = << >> /\ error = ""
  /\ curPage = 1
  /\ epoch = 1
  /\ ctx = 0
  /\ pc = "guided"
  /\ max_pages = 0 /\ page = 0 /\ seen = {} /\ collected = << >>
  /\ selected = << >> /\ selected_target = EmptyText /\ current_page = 0
  /\ selecionado = << >>
  /\ trace = << >> /\ visited = << >> /\ clicked = << >> /\ staleDeref = FALSE /\ warnings = << >>

\* every listing within the bounds, under two configurations
InitGuided ==
  /\ \E cfg \in { [parts |-> <<TxtALPHA, TxtBETA>>, mode |-> "contains"],
                  [parts |-> <<TxtBETA, TxtALPHA>>, mode |-> "exact"] } :
       /\ descricoes_busca = _parse_descricoes_busca(cfg.parts)
       /\ descricao_match_mode = cfg.mode
       /\ settings = AsConfigured
       /\ PagerIdle
  /\ listing \in Listings
  /\ flaky = FALSE
  /\ GuidedEntry

\* the listings of one page, and those of two pages whose first has one row
SelectListings ==
  {l \in Listings : Len(l) <= 1 \/ (Len(l) = 2 /\ Len(l[1]) = 1)}

\* every configuration within the bounds
InitSelect ==
  /\ \E parts \in RawTargetLists : descricoes_busca = _parse_descricoes_busca(parts)
  /\ descricao_match_mode \in MatchModes
  /\ settings = AsConfigured
  /\ PagerIdle
  /\ listing \in SelectListings
  /\ flaky = FALSE
  /\ GuidedEntry

NextGuided ==
  \/ GuidedStart
  \/ SweepPage
  \/ SelectTarget
  \/ ReplayReload
  \/ ReplayAdvance
  \/ ReplayClick

SpecGuided == InitGuided /\ [][NextGuided]_vars

SpecSelect == InitSelect /\ [][NextGuided]_vars

\* table rows whose description cell holds no usable description (an empty
\* cell, a status word, the number again), and two rows that hold one
DescRowPool ==
  { [num |-> TxtNum1, desc |-> EmptyText],
    [num |-> TxtNum1, desc |-> TxtGERADO],
    [num |-> TxtNum2, desc |-> TxtNum2],
    [num |-> TxtNum1, desc |-> TxtBetaX],
    [num |-> TxtNum2, desc |-> TxtALPHA] }

\* listings of one page, and of two pages of one row each
DescListings ==
  UNION {{<<rows>> : rows \in [1..n -> DescRowPool]} : n \in 1..(MaxRows - 1)}
  \cup {<< <<r1>>, <<r2>> >> : r1 \in DescRowPool, r2 \in DescRowPool}

\* the guided selection over listings with rows without a description
InitDesc ==
  /\ \E parts \in RawTargetLists : descricoes_busca = _parse_descricoes_busca(parts)
  /\ descricao_match_mode \in MatchModes
  /\ settings = AsConfigured
  /\ PagerIdle
  /\ listing \in DescListings
  /\ flaky = FALSE
  /\ GuidedEntry

SpecDesc == InitDesc /\ [][NextGuided]_vars

\* values of the parameter max_pages: the one call passes SweepMaxPages
MaxPagesChoices == {1, 2, SweepMaxPages}

\* _collect_interno_rows_with_pagination alone, called on the first page
InitSweep ==
  /\ LocateIdle
  /\ descricoes_busca = <<TxtALPHA>>
  /\ descricao_match_mode = "contains"
  /\ settings = AsConfigured
  /\ PagerIdle
  /\ selectors = SelectorKeys
  /\ driver = "open"
  /\ screen = "listing" /\ menuIn = {0} /\ now = 0 /\ deadline = 0
  /\ windows = <<1>> /\ curWin = 1
  /\ procEntries = << >> /\ tree = << >> /\ arvore = FALSE
  /\ processos = << >> /\ proc_i = 0
  /\ max_cycles = 0 /\ cycle = 0 /\ total_clicked = 0 /\ previous_doc_count = -1 /\ doc_count = -1
  /\ expand_errors = FALSE
  /\ found = {} /\ result = << >> /\ error = ""
  /\ listing \in Listings
  /\ flaky \in BOOLEAN
  /\ curPage = 1
  /\ epoch = 1
  /\ ctx = 0
  /\ max_pages \in MaxPagesChoices
  /\ page = 1 /\ seen = {} /\ collected = << >>
  /\ selected = << >> /\ selected_target = EmptyText /\ current_page = 0
  /\ selecionado = << >>
  /\ trace = << >> /\ visited = << >> /\ clicked = << >> /\ staleDeref = FALSE /\ warnings = << >>
  /\ pc = "sweep"

NextSweep == SweepPage

\* one call of _collect_interno_rows_current_page on the page displayed
CollectPage ==
  /\ pc = "rows"
  /\ \E staleRows \in StaleChoices(listing, curPage, flaky) :
       LET page_rows == _collect_interno_rows_current_page(listing, curPage, epoch, page, staleRows)
       IN  /\ collected' = page_rows
           /\ visited' = visited \o SignaturesOf(page_rows)
  /\ pc' = "rows_done"
  /\ UNCHANGED <<pagerVars, configVars, locateVars, flowVars, browserVars, max_pages, page, seen,
                 replayVars, selecionado, trace, clicked, staleDeref, warnings>>

\* rows without an identifying link, and with a link of blank text
RowsWithoutLink ==
  { [num |-> EmptyText, desc |-> TxtALPHA],
    [num |-> TxtBlank, desc |-> TxtBetaX] }

\* the pages the call may be made on
RowPages == UNION {[1..n -> RowPool \cup RowsWithoutLink] : n \in 0..MaxRows}

\* _collect_interno_rows_current_page alone, on the one page of a listing
InitRows ==
  /\ LocateIdle
  /\ descricoes_busca = <<TxtALPHA>>
  /\ descricao_match_mode = "contains"
  /\ settings = AsConfigured
  /\ PagerIdle
  /\ selectors = SelectorKeys
  /\ driver = "open"
  /\ screen = "listing" /\ menuIn = {0} /\ now = 0 /\ deadline = 0
  /\ windows = <<1>> /\ curWin = 1
  /\ procEntries = << >> /\ tree = << >> /\ arvore = FALSE
  /\ processos = << >> /\ proc_i = 0
  /\ max_cycles = 0 /\ cycle = 0 /\ total_clicked = 0 /\ previous_doc_count = -1 /\ doc_count = -1
  /\ expand_errors = FALSE
  /\ found = {} /\ result = << >> /\ error = ""
  /\ \E rows \in RowPages : listing = <<rows>>
  /\ flaky \in BOOLEAN
  /\ curPage = 1
  /\ epoch = 1
  /\ ctx = 0
  /\ max_pages = SweepMaxPages
  /\ page = 1 /\ seen = {} /\ collected = << >>
  /\ selected = << >> /\ selected_target = EmptyText /\ current_page = 0
  /\ selecionado = << >>
  /\ trace = << >> /\ visited = << >> /\ clicked = << >> /\ staleDeref = FALSE /\ warnings = << >>
  /\ pc = "rows"

NextRows == CollectPage

SpecRows == InitRows /\ [][NextRows]_vars

\* the pages the call may be made on: up to MaxCtls controls, each found by
\* one of the expressions
PagerControls ==
  UNION {[1..n -> [kind : PagerKinds,
                   xpath : {"paginacao_proxima"} \cup Range(GenericNextXPaths)]] : n \in 0..MaxCtls}

\* _click_next_page_if_available alone, with and without a configured expression
InitNextPage ==
  /\ LocateIdle
  /\ descricoes_busca = <<TxtALPHA>>
  /\ descricao_match_mode = "contains"
  /\ settings = AsConfigured
  /\ next_controls \in PagerControls
  /\ next_clicked = << >>
  /\ selectors \in {SelectorKeys, SelectorKeys \cup {"paginacao_proxima"}}
  /\ driver = "open"
  /\ screen = "listing" /\ menuIn = {0} /\ now = 0 /\ deadline = 0
  /\ windows = <<1>> /\ curWin = 1
  /\ procEntries = << >> /\ tree = << >> /\ arvore = FALSE
  /\ processos = << >> /\ proc_i = 0
  /\ max_cycles = 0 /\ cycle = 0 /\ total_clicked = 0 /\ previous_doc_count = -1 /\ doc_count = -1
  /\ expand_errors = FALSE
  /\ found = {} /\ result = << >> /\ error = ""
  /\ listing = << >>
  /\ flaky = FALSE
  /\ curPage = 1
  /\ epoch = 1
  /\ ctx = 0
  /\ max_pages = SweepMaxPages
  /\ page = 1 /\ seen = {} /\ collected = << >>
  /\ selected = << >> /\ selected_target = EmptyText /\ current_page = 0
  /\ selecionado = << >>
  /\ trace = << >> /\ visited = << >> /\ clicked = << >> /\ staleDeref = FALSE /\ warnings = << >>
  /\ pc = "next_page"

NextNextPage == ClickNextPage

SpecNextPage == InitNextPage /\ [][NextNextPage]_vars

SpecSweep == InitSweep /\ [][NextSweep]_vars

(***************************************************************************)
(* The whole session: run_full_flow on a scraper just constructed.         *)
(***************************************************************************)
\* the configurations the session is run under: the raw target phrases,
\* the match mode and the keys of the locator table
SessionConfigs ==
  { [parts |-> <<TxtALPHA, TxtBETA>>, mode |-> "contains", keys |-> SelectorKeys],
    [parts |-> <<TxtBETA, TxtALPHA>>, mode |-> "exact", keys |-> SelectorKeys],
    [parts |-> << >>, mode |-> "contains", keys |-> SelectorKeys],
    [parts |-> <<TxtALPHA>>, mode |-> "contains", keys |-> SelectorKeys \ {"bloco"}],
    [parts |-> <<TxtALPHA>>, mode |-> "contains", keys |-> SelectorKeys \ {"interno"}],
    [parts |-> <<TxtBETA>>, mode |-> "contains", keys |-> SelectorKeys \ {"processo"}],
    [parts |-> <<TxtBETA>>, mode |-> "contains",
     keys |-> SelectorKeys \ {"documentos_do_processo"}] }

\* the browser and the locals of a scraper just constructed
Constructed ==
  /\ screen = "blank" /\ menuIn = {} /\ now = 0 /\ deadline = 0
  /\ windows = <<1>> /\ curWin = 1
  /\ listing = << >> /\ curPage = 0 /\ epoch = 0 /\ flaky = FALSE
  /\ procEntries = << >> /\ tree = << >> /\ arvore = FALSE
  /\ processos = << >> /\ proc_i = 0
  /\ max_cycles = 0 /\ cycle = 0 /\ total_clicked = 0 /\ previous_doc_count = -1 /\ doc_count = -1
  /\ expand_errors = FALSE
  /\ found = {} /\ result = << >> /\ error = ""
  /\ max_pages = 0 /\ page = 0 /\ seen = {} /\ collected = << >>
  /\ selected = << >> /\ selected_target = EmptyText /\ current_page = 0
  /\ selecionado = << >>
  /\ trace = << >> /\ visited = << >> /\ clicked = << >> /\ staleDeref = FALSE /\ warnings = << >>

Init ==
  /\ \E cfg \in SessionConfigs :
       /\ descricoes_busca = _parse_descricoes_busca(cfg.parts)
       /\ descricao_match_mode = cfg.mode
       /\ settings = AsConfigured
       /\ PagerIdle
       /\ selectors = cfg.keys
  /\ driver = "open"
  /\ Constructed
  /\ LocateIdle
  /\ ctx = 0
  /\ pc = "start"

Next ==
  \/ StartFlow
  \/ LoginStart
  \/ LoginPoll
  \/ ClosePopup
  \/ OpenInternoMenu
  \/ GuidedStart
  \/ SweepPage
  \/ SelectTarget
  \/ ReplayReload
  \/ ReplayAdvance
  \/ ReplayClick
  \/ AfterGuided
  \/ OpenProcesso
  \/ CollectStart
  \/ ExpandCycle
  \/ CollectDocs
  \/ CloseTab
  \/ FinishFlow

Spec == Init /\ [][Next]_vars

(***************************************************************************)
(* main: the scraper is constructed, the session is run, and the driver is *)
(* released.                                                               *)
(***************************************************************************)
\* the configurations main is run under
MainConfigs == {cfg \in SessionConfigs : cfg.keys = SelectorKeys}

\* what get_settings returns for them
MainSettings ==
  {[descricoes_busca |-> cfg.parts, descricoes_match_mode |-> cfg.mode] : cfg \in MainConfigs}

TerminalPcs == {"Done", "NoSelection", "Error", "Interrupted"}

\* main.py line 46 and __init__: the driver is created at line 71, and
\* load_selectors at line 74 raises when the locator file is missing; an
\* exception of the constructor leaves main, which has no handler there
Construct ==
  /\ pc = "main"
  /\ \E created \in BOOLEAN, loaded \in BOOLEAN :
       IF ~created
       THEN /\ error' = "init_driver"
            /\ pc' = "Exit"
            /\ UNCHANGED <<descricoes_busca, descricao_match_mode, selectors, driver, warnings>>
       ELSE IF ~loaded
       THEN /\ driver' = "open"
            /\ error' = "init_selectors"
            /\ pc' = "Exit"
            /\ UNCHANGED <<descricoes_busca, descricao_match_mode, selectors, warnings>>
       ELSE /\ driver' = "open"
            /\ selectors' = SelectorKeys
            \* lines 76-83
            /\ descricoes_busca' = _parse_descricoes_busca(settings.descricoes_busca)
            /\ descricao_match_mode' = EffectiveMode(settings.descricoes_match_mode)
            /\ warnings' = warnings \o ModeWarnings(settings.descricoes_match_mode)
            /\ pc' = "start"
            /\ UNCHANGED error
  /\ UNCHANGED <<pagerVars, settings, locateVars, browserVars, sweepVars, replayVars, selecionado,
                 trace, visited, clicked, staleDeref,
                 loginVars, windowVars, processVars, expandVars, processos, proc_i, found,
                 result>>

\* Ctrl+C while run_full_flow runs: KeyboardInterrupt is not an Exception,
\* so no handler of the scraper catches it, and main.py line 54 does
Interrupt ==
  /\ pc \notin (TerminalPcs \cup {"main", "Exit"})
  /\ pc' = "Interrupted"
  /\ UNCHANGED <<pagerVars, configVars, locateVars, browserVars, sweepVars, replayVars, selecionado,
                 historyVars, flowVars>>

\* main.py lines 56-60: the finally clause, after the flow returned or raised
MainFinally ==
  /\ pc \in TerminalPcs
  /\ driver' = "quit"
  /\ pc' = "Exit"
  /\ UNCHANGED <<pagerVars, settings, descricoes_busca, descricao_match_mode, selectors, locateVars,
                 browserVars, sweepVars, replayVars, selecionado, historyVars, flowVars>>

\* the state in which main calls the constructor
InitMain ==
  /\ settings \in MainSettings
  /\ PagerIdle
  /\ descricoes_busca = << >>
  /\ descricao_match_mode = "contains"
  /\ selectors = {}
  /\ driver = "none"
  /\ Constructed
  /\ LocateIdle
  /\ ctx = 0
  /\ pc = "main"

NextMain ==
  \/ Construct
  \/ Next
  \/ Interrupt
  \/ MainFinally

SpecMain == InitMain /\ [][NextMain]_vars

\* the characters of the configured phrases
PhraseChars == {" ", "a", "o", "N", "A~", "A^", "o_", "FFFD"}

\* the phrases: every text of up to MaxPhraseLen characters
RawPhrases == UNION {[1..n -> PhraseChars] : n \in 0..MaxPhraseLen}

\* the constructor alone, on every configured phrase and mode
InitConfig ==
  /\ settings \in [descricoes_busca : {<<x>> : x \in RawPhrases}, descricoes_match_mode : RawModes]
  /\ PagerIdle
  /\ descricoes_busca = << >>
  /\ descricao_match_mode = "contains"
  /\ selectors = {}
  /\ driver = "none"
  /\ Constructed
  /\ LocateIdle
  /\ ctx = 0
  /\ pc = "main"

NextConfig == Construct

SpecConfig == InitConfig /\ [][NextConfig]_vars

(***************************************************************************)
(* One call of _expand_all_pastas, on every tree within the bounds.        *)
(***************************************************************************)
MaxNodes == 3

RECURSIVE Ancestors(_, _)
\* the folders above node n, the node itself included
Ancestors(t, n) == IF n = 0 THEN {} ELSE {n} \cup Ancestors(t, t[n].parent)

\* the nodes come in document order: a node hangs from the top, or from a
\* folder on the path to the node before it
WellFormed(t) ==
  \A n \in 1..Len(t) :
    /\ t[n].parent < n
    /\ t[n].parent # 0 =>
         /\ t[t[n].parent].folder
         /\ t[n].parent \in Ancestors(t, n - 1)

NodeShapes(n) ==
  {Folder(p, o) : p \in 0..(n - 1), o \in BOOLEAN} \cup {Doc(p, TxtD1) : p \in 0..(n - 1)}

ExpandTrees ==
  UNION {{t \in [1..n -> NodeShapes(n)] : WellFormed(t)} : n \in 0..MaxNodes}

\* values of the parameter max_cycles
MaxCyclesChoices == {1, 2, ExpandMaxCycles}

InitExpand ==
  /\ descricoes_busca = << >>
  /\ descricao_match_mode = "contains"
  /\ settings = AsConfigured
  /\ PagerIdle
  /\ selectors = SelectorKeys
  /\ driver = "open"
  /\ LocateIdle
  /\ screen = "processo" /\ menuIn = {} /\ now = 0 /\ deadline = 0
  /\ windows = <<1, 2>> /\ curWin = 2
  /\ listing = << >> /\ curPage = 0 /\ epoch = 0 /\ flaky = FALSE
  /\ ctx = 0
  /\ procEntries = << >>
  /\ tree \in ExpandTrees
  /\ arvore \in BOOLEAN
  /\ processos = << >> /\ proc_i = 0
  /\ max_cycles \in MaxCyclesChoices
  /\ cycle = 1 /\ total_clicked = 0 /\ previous_doc_count = -1 /\ doc_count = -1
  /\ expand_errors = FALSE
  /\ found = {} /\ result = << >> /\ error = ""
  /\ max_pages = 0 /\ page = 0 /\ seen = {} /\ collected = << >>
  /\ selected = << >> /\ selected_target = EmptyText /\ current_page = 0
  /\ selecionado = << >>
  /\ trace = << >> /\ visited = << >> /\ clicked = << >> /\ staleDeref = FALSE /\ warnings = << >>
  /\ pc = "expand"

NextExpand == ExpandCycle

\* _collect_documentos from the call of the expansion on
NextCollect ==
  \/ ExpandCycle
  \/ CollectDocs

SpecExpand == InitExpand /\ [][NextExpand]_vars

\* the one thread of the program goes on running
SpecExpandFair == SpecExpand /\ WF_vars(NextExpand)

SpecCollect == InitExpand /\ [][NextCollect]_vars

(***************************************************************************)
(* One call of wait_for_elements, on every page within the bounds.         *)
(***************************************************************************)
FrameMatches == UNION {[1..n -> BOOLEAN] : n \in 0..MaxFrames}

\* the call may come with any context active
InitLocate ==
  /\ descricoes_busca = << >>
  /\ descricao_match_mode = "contains"
  /\ settings = AsConfigured
  /\ PagerIdle
  /\ selectors = SelectorKeys
  /\ driver = "open"
  /\ Constructed
  /\ matchDefault \in BOOLEAN
  /\ frameMatch \in FrameMatches
  /\ restore_context \in BOOLEAN
  /\ iframes = 0 /\ frame_idx = 0 /\ located = << >>
  /\ switches = << >> /\ roundOk = FALSE /\ swept = FALSE /\ doc_ready = FALSE
  /\ ctx \in 0..Len(frameMatch)
  /\ pc = "locate"

NextLocate ==
  \/ LocateBegin
  \/ LocatePoll
  \/ LocateFrame

SpecLocate == InitLocate /\ [][NextLocate]_vars

\* the caller's use of the elements returned: _list_processos reads
\* elem.text (lines 792-795) and _open_processo reads and clicks (lines
\* 805-808) after wait_for_elements returned; the driver answers only for
\* an element of the active context, and its error leaves the caller
ReadLocated ==
  /\ pc = "loc_done"
  /\ pc' = IF located[1] = ctx THEN "caller_read" ELSE "caller_error"
  /\ UNCHANGED <<pagerVars, configVars, browserVars, sweepVars, replayVars, selecionado,
                 historyVars, flowVars, locateVars>>

NextLocateUse ==
  \/ NextLocate
  \/ ReadLocated

\* a call of wait_for_elements and the use its caller makes of the result
SpecLocateUse == InitLocate /\ [][NextLocateUse]_vars

(***************************************************************************)
(* Termination: a session, or one call of wait_for_elements, in which      *)
(* every driver call returns, so that the step in turn is always taken.    *)
(***************************************************************************)
InitWaits == Init \/ InitLocate

NextWaits == Next \/ NextLocate

SpecWaits == InitWaits /\ [][NextWaits]_vars /\ WF_vars(NextWaits)

(***************************************************************************)
(* Properties of the guided selection.                                     *)
(***************************************************************************)
Matches(row, target) ==
  _descricao_match(descricao_match_mode, row.descricao_normalizada, target)

\* the targets that match at least one collected row, by their priority
TargetsWithMatch ==
  {k \in 1..Len(descricoes_busca) :
     \E i \in 1..Len(collected) : Matches(collected[i], descricoes_busca[k])}

BestTarget == CHOOSE k \in TargetsWithMatch : \A j \in TargetsWithMatch : k <= j

RowsMatching(k) == {i \in 1..Len(collected) : Matches(collected[i], descricoes_busca[k])}

FirstRowMatching(k) == CHOOSE i \in RowsMatching(k) : \A j \in RowsMatching(k) : i <= j

\* C1: guided selection is priority-ordered first-match.  When a row has
\* been selected it is the first collected row that matches the earliest
\* target with a match, whatever rows match later targets; and the
\* selection returns none without a replay only if no target matches a row.
C1_PriorityOrderedFirstMatch ==
  /\ pc = "replay_reload" =>
       /\ TargetsWithMatch # {}
       /\ selected = <<collected[FirstRowMatching(BestTarget)]>>
       /\ selected_target = descricoes_busca[BestTarget]
  /\ (pc = "guided_done" /\ trace = << >>) => TargetsWithMatch = {}

\* a row of a lower-priority target precedes the selected row
C1_Witness ==
  /\ pc = "replay_reload"
  /\ Len(collected) >= 2
  /\ selected = <<collected[2]>>
  /\ \E k \in TargetsWithMatch : k > BestTarget /\ Matches(collected[1], descricoes_busca[k])

ReplayTraceOf(p) == <<"get">> \o Repeat("next", p - 1) \o <<"collect", "click">>

IsPrefix(s, t) == Len(s) <= Len(t) /\ SubSeq(t, 1, Len(s)) = s

ErrorEvents == {"err_reload", "err_advance", "err_click", "err_not_found"}

\* the trace without the error report that ends it
DriverActions(t) ==
  IF t # << >> /\ t[Len(t)] \in ErrorEvents THEN SubSeq(t, 1, Len(t) - 1) ELSE t

CountOf(e, t) == Cardinality({i \in 1..Len(t) : t[i] = e})

\* C2: the replay of a row recorded on page p reloads the listing, then
\* advances exactly p - 1 times, and only then re-collects and clicks: the
\* driver actions of a replay are at every moment a prefix of
\* get, next^(p-1), collect, click; a click ends exactly that sequence, and
\* the walk gives up only with fewer than p - 1 advances done.
C2_ReplayAdvancesThenClicks ==
  selected # << >> =>
    LET p == Head(selected).page
    IN  /\ IsPrefix(DriverActions(trace), ReplayTraceOf(p))
        /\ clicked # << >> => trace = ReplayTraceOf(p)
        /\ (trace # << >> /\ trace[Len(trace)] = "err_advance") => CountOf("next", trace) < p - 1

\* a row of page 3 was clicked, after two advances
C2_Witness ==
  /\ selected # << >>
  /\ Head(selected).page = 3
  /\ clicked # << >>
  /\ CountOf("next", trace) = 2

\* the signature the collector gives a row of the listing
SignatureOfRow(row) == Signature(InternoRow(row, 0, 0, 0, 0))

\* C3: the replay never clicks a row whose signature differs from the
\* recorded one; when the re-collected page holds no row of that signature,
\* no row is clicked and the replay fails with its report.
C3_ReplayClicksBySignature ==
  /\ clicked # << >> => SignatureOfRow(Head(clicked)) = Signature(Head(selected))
  /\ (pc = "guided_done" /\ CountOf("collect", trace) > 0
        /\ \A i \in 1..Len(DisplayedRows(listing, Head(selected).page)) :
             SignatureOfRow(listing[Head(selected).page][i]) # Signature(Head(selected)))
     => /\ clicked = << >>
        /\ selecionado = << >>
        /\ trace[Len(trace)] = "err_not_found"

\* the re-collected page holds rows, none with the recorded signature
C3_Witness ==
  /\ pc = "guided_done"
  /\ trace # << >> /\ trace[Len(trace)] = "err_not_found"
  /\ DisplayedRows(listing, Head(selected).page) # << >>
  /\ clicked = << >>

\* C5: after a pagination sweep no two returned rows share a signature, and
\* the rows returned are as many as the distinct signatures of the rows seen
\* on the visited pages.
C5_SweepSignaturesUnique ==
  pc = "select" =>
    /\ \A i, j \in 1..Len(collected) :
         Signature(collected[i]) = Signature(collected[j]) => i = j
    /\ Len(collected) = Cardinality({visited[i] : i \in 1..Len(visited)})

\* a sweep over several pages met a signature twice
C5_Witness ==
  /\ pc = "select"
  /\ page >= 2
  /\ Len(visited) > Len(collected)
  /\ Len(collected) >= 2

(***************************************************************************)
(* Properties of the session and of the locator.                           *)
(***************************************************************************)
\* C4: no element handle obtained before a full-page navigation is clicked
\* or read after it: the replay click takes the handle of the row collected
\* again after the reload, and every process iteration locates the process
\* entries again.
C4_NoStaleHandleDeref == staleDeref = FALSE

\* a second process is opened after the window of the first was closed, in
\* a session whose guided click went through
C4_Witness ==
  /\ pc = "proc_collect"
  /\ proc_i = 2
  /\ clicked # << >>
  /\ CountOf("click_processo", trace) = 2

\* C6: every operation that changes the frame context (the sweep, the
\* replay click, the tree expansion, the document collection) returns with
\* the default document active.
C6_ContextRestoredOnReturn ==
  pc \in {"select", "guided_done", "proc_docs", "proc_close"} => ctx = 0

SwitchesInOrder ==
  \A i \in 1..Len(switches) :
    /\ i = 1 => switches[i] = 0
    /\ switches[i] # 0 =>
         /\ i > 1 /\ switches[i - 1] = 0
         /\ \A j \in 1..(i - 1) : switches[j] # 0 => switches[j] < switches[i]

NothingMatches == ~matchDefault /\ \A k \in 1..Len(frameMatch) : ~frameMatch[k]

\* C7: wait_for_elements finds an expression that matches only inside a
\* frame.  It returns elements only from a context where the expression
\* matches, from a frame only if the default document has no match; within
\* a round the frames are entered in index order, each after the default
\* document; a round that tried every frame ends without a return only if
\* nothing matches anywhere; and on return, with or without elements, the
\* default document is active when restore_context is set.
C7_FrameFallbackFindsAndRestores ==
  /\ pc = "loc_done" =>
       /\ located # << >>
       /\ IF located[1] = 0 THEN matchDefault
          ELSE ~matchDefault /\ frameMatch[located[1]]
       /\ ctx = (IF restore_context THEN 0 ELSE located[1])
  /\ pc = "loc_timeout" => (restore_context => ctx = 0) /\ located = << >>
  /\ swept => NothingMatches
  /\ SwitchesInOrder

\* the expression matches only in the second of three frames
C7_Witness ==
  /\ pc = "loc_done"
  /\ Len(frameMatch) = 3
  /\ ~matchDefault /\ ~frameMatch[1] /\ frameMatch[2] /\ ~frameMatch[3]
  /\ located = <<2>>
  /\ restore_context
  /\ ctx = 0

\* C8: wait_for_clickable searches the default document and then every
\* frame, so the click on the block menu times out on a displayed home
\* screen only if the control is in no context at all.
C8_ClickableInFrameIsFound ==
  (error = "menu_timeout" /\ screen = "home" /\ CountOf("click_bloco", trace) = 0)
    => menuIn = {}

OpenProcessoErrors ==
  {"open_processo_timeout", "open_processo_not_found", "open_processo_no_window"}

\* C10: a failure of one process iteration is caught and the loop goes on:
\* it never ends the session in Error.
C10_ProcessFailureIsCaught == ~(pc = "Error" /\ error \in OpenProcessoErrors)

\* C11: after a process iteration whose window was closed, the focused
\* window is the one that was focused before the process was opened, the
\* first window of the session, whatever number of windows the click opened.
C11_FocusReturnsToPriorWindow ==
  (pc = "proc_open" /\ proc_i > 1 /\ trace # << >> /\ Last(trace) = "close_window")
    => curWin = Head(windows)

\* C12: on every exit of main after the driver was created, the release
\* of the driver was attempted.
C12_DriverReleasedOnExit == (pc = "Exit" /\ driver # "none") => driver = "quit"

RECURSIVE FolderDepth(_, _)
\* the number of folders from the top down to node n
FolderDepth(t, n) ==
  IF n = 0 THEN 0
  ELSE (IF t[n].folder THEN 1 ELSE 0) + FolderDepth(t, t[n].parent)

\* the depth of a tree: the most folders on a path from the top
TreeDepth(t) ==
  IF t = << >> THEN 0
  ELSE LET depths == {FolderDepth(t, n) : n \in 1..Len(t)}
       IN  CHOOSE d \in depths : \A e \in depths : e <= d

\* C13: on a fixed finite tree, with no driver error and max_cycles at least
\* the depth of the tree, the expansion ends with no closed folder displayed
\* and has clicked in no more cycles than the tree is deep.
C13_ExpandsAllWithinDepth ==
  (pc = "proc_docs" /\ arvore /\ ~expand_errors /\ max_cycles >= TreeDepth(tree))
    => (ClosedIcons(tree) = << >> /\ cycle - 1 <= TreeDepth(tree))

\* C14: _expand_all_pastas always terminates.  No more than max_cycles
\* cycles are run; a cycle clicks at most once per closed folder displayed
\* at its start, and either returns or passes to the next cycle; a cycle
\* without an effective click returns; and the expansion does return.
C14_ExpansionTerminates ==
  /\ [](cycle <= max_cycles + 1)
  /\ [][/\ pc' = "proc_docs" \/ (cycle' = cycle + 1 /\ cycle <= max_cycles)
        /\ total_clicked' - total_clicked <= Len(ClosedIcons(tree))
        /\ total_clicked' = total_clicked => pc' = "proc_docs"]_vars
  /\ <>(pc = "proc_docs")

\* the ceiling stopped the expansion with a closed folder still displayed
C14_Witness ==
  /\ pc = "proc_docs"
  /\ cycle = max_cycles + 1
  /\ arvore
  /\ ClosedIcons(tree) # << >>

\* what the two modes mean: equality, or the target framed by a prefix and
\* a suffix of the description
ModeMatch(descricao, alvo) ==
  IF descricao_match_mode = "exact"
  THEN descricao = alvo
  ELSE \E i \in 0..Len(descricao), j \in 0..Len(descricao) :
         /\ i <= j
         /\ descricao = SubSeq(descricao, 1, i) \o alvo \o SubSeq(descricao, j + 1, Len(descricao))

ModeMatchingPairs ==
  {<<i, k>> \in (1..Len(collected)) \X (1..Len(descricoes_busca)) :
     ModeMatch(collected[i].descricao_normalizada, descricoes_busca[k])}

\* C15: matching is mode-consistent.  The row selected matches its target
\* in the configured mode (equality in mode exact, substring in mode
\* contains), no row collected before it matches that target, and the
\* selection finds no match only if no collected row matches any target in
\* that mode.
C15_MatchingIsModeConsistent ==
  /\ pc = "replay_reload" =>
       /\ ModeMatch(selected[1].descricao_normalizada, selected_target)
       /\ \E i \in 1..Len(collected) :
            /\ collected[i] = selected[1]
            /\ \A j \in 1..(i - 1) :
                 ~ModeMatch(collected[j].descricao_normalizada, selected_target)
  /\ (pc = "guided_done" /\ trace = << >>) => ModeMatchingPairs = {}

\* in mode exact a row that only contains the first target was passed over
\* for a row equal to a later target
C15_Witness ==
  /\ pc = "replay_reload"
  /\ descricao_match_mode = "exact"
  /\ Len(descricoes_busca) >= 2
  /\ selected_target # descricoes_busca[1]
  /\ \E i \in 1..Len(collected) :
       /\ IsSubstring(descricoes_busca[1], collected[i].descricao_normalizada)
       /\ collected[i].descricao_normalizada # descricoes_busca[1]

\* C16: a replay that was reloaded and failed reports "err_advance" exactly
\* when it gave up before reaching the recorded page, and "err_not_found"
\* only with the recorded page reached and re-collected; in both cases the
\* selection returns none and no row is clicked, and one run never carries
\* both reports.
C16_ReplayFailuresAreDistinguished ==
  (pc = "guided_done" /\ selected # << >> /\ CountOf("err_reload", trace) = 0) =>
    LET p    == Head(selected).page
        last == Last(trace)
    IN  /\ current_page < p <=> last = "err_advance"
        /\ selecionado = << >> <=> last \in ErrorEvents
        /\ last = "err_advance" =>
              /\ selecionado = << >> /\ clicked = << >>
              /\ curPage < p
              /\ CountOf("collect", trace) = 0
              /\ CountOf("err_not_found", trace) = 0
        /\ last = "err_not_found" =>
              /\ selecionado = << >> /\ clicked = << >>
              /\ curPage = p /\ current_page = p
              /\ CountOf("next", trace) = p - 1
              /\ CountOf("collect", trace) = 1
              /\ CountOf("err_advance", trace) = 0

\* the replay of a row of page 3 advanced once and then found no control
C16_Witness ==
  /\ pc = "guided_done"
  /\ selected # << >> /\ Head(selected).page = 3
  /\ trace # << >> /\ Last(trace) = "err_advance"
  /\ CountOf("next", trace) = 1
  /\ selecionado = << >>

\* the reloads and row clicks of the guided selection
ReplayEvents == {"get", "next", "collect", "click"} \cup ErrorEvents

NoMatchWarnings == {"nenhum_interno_elegivel", "nenhuma_descricao_teve_match"}

\* C17: when no configured target matches a collected row, the guided
\* selection returns none after logging a warning, without a reload or a
\* row click; run_full_flow then returns the empty result: it ends in
\* NoSelection with no error, no process listed and no window opened.
C17_NoMatchEndsInNoSelection ==
  /\ [][(pc = "select" /\ ModeMatchingPairs = {}) =>
          /\ pc' = "guided_done"
          /\ selecionado' = << >>
          /\ trace' = trace /\ clicked' = clicked /\ browserVars' = browserVars
          /\ warnings' = Append(warnings, IF collected = << >> THEN "nenhum_interno_elegivel"
                                          ELSE "nenhuma_descricao_teve_match")]_vars
  /\ [][(pc = "guided_done" /\ warnings # << >> /\ Last(warnings) \in NoMatchWarnings) =>
          /\ pc' = "NoSelection"
          /\ result' = << << >> >>
          /\ error' = ""
          /\ trace' = trace /\ clicked' = clicked
          /\ windows' = windows /\ processos' = << >> /\ procEntries' = << >>]_vars
  /\ [](pc = "NoSelection" =>
          /\ result = << << >> >> /\ error = ""
          /\ windows = <<1>> /\ processos = << >>
          /\ CountOf("click_processo", trace) = 0
          /\ (\E i \in 1..Len(warnings) : warnings[i] \in NoMatchWarnings) =>
               \A i \in 1..Len(trace) : trace[i] \notin ReplayEvents)

\* rows were collected, none matches, and the flow returned its empty result
C17_Witness ==
  /\ pc = "NoSelection"
  /\ warnings = <<"nenhuma_descricao_teve_match", "nenhum_interno_selecionado">>
  /\ result = << << >> >>

GuidedWorkPcs == {"sweep", "select", "replay_reload", "replay_walk"}

\* C18: with no configured target the guided selection returns none at
\* once: its only step logs the warning and returns, leaving the browser,
\* the sweep and the replay untouched; no row is collected, no page
\* advanced, no reload and no click issued, and the run carries no error.
C18_NoTargetsReturnsAtOnce ==
  /\ [][(pc = "guided" /\ descricoes_busca = << >>) =>
          /\ pc' = "guided_done"
          /\ selecionado' = << >>
          /\ warnings' = Append(warnings, "descricoes_busca_vazio")
          /\ error' = error
          /\ UNCHANGED <<browserVars, sweepVars, replayVars, trace, visited, clicked>>]_vars
  /\ [](descricoes_busca = << >> =>
          /\ pc \notin GuidedWorkPcs
          /\ page = 0 /\ collected = << >> /\ visited = << >> /\ clicked = << >>
          /\ \A i \in 1..Len(trace) : trace[i] \notin ReplayEvents)
  /\ []((\E i \in 1..Len(warnings) : warnings[i] = "descricoes_busca_vazio") =>
          /\ pc \in {"guided_done", "NoSelection"}
          /\ error = ""
          /\ selecionado = << >>)

\* the guided selection returned with nothing configured, after the menu
C18_Witness ==
  /\ pc = "guided_done"
  /\ descricoes_busca = << >>
  /\ warnings = <<"descricoes_busca_vazio">>
  /\ trace = <<"click_bloco", "click_interno">>

\* C19: when the deadline of the login wait passes without the home menu
\* seen, the poll raises "login_not_confirmed" and nothing else changes;
\* the run is then in Error for good, with no result, and no popup, menu,
\* listing or process action was or will be performed.
C19_LoginNotConfirmedIsFatal ==
  /\ [][(pc = "login_poll" /\ now >= deadline) =>
          /\ pc' = "Error"
          /\ error' = "login_not_confirmed"
          /\ UNCHANGED <<configVars, browserVars, sweepVars, replayVars, selecionado,
                         historyVars, loginVars, windowVars, processVars, result, found>>]_vars
  /\ [][pc = "Error" => FALSE]_vars
  /\ [](error = "login_not_confirmed" =>
          /\ pc = "Error"
          /\ now >= deadline /\ screen # "home"
          /\ result = << >>
          /\ trace = << >> /\ warnings = << >> /\ clicked = << >>
          /\ page = 0 /\ visited = << >>
          /\ windows = <<1>> /\ processos = << >> /\ proc_i = 0)

\* the wait of six seconds ran out on a page that is not the home page
C19_Witness ==
  /\ pc = "Error"
  /\ error = "login_not_confirmed"
  /\ deadline = 6 /\ now >= 6

\* the state of the session a position of run_full_flow belongs to
PhaseOf(at) ==
  CASE at = "start" -> "Init"
    [] at \in {"login", "login_poll"} -> "AwaitingLogin"
    [] at \in {"popup", "menu"} -> "MenuOpen"
    [] at \in {"guided", "guided_done"} \cup GuidedWorkPcs -> "Listing"
    [] at = "NoSelection" -> "NoSelection"
    [] at \in {"proc_open", "proc_collect", "expand", "proc_docs", "proc_close"} -> "ProcessLoop"
    [] at = "Done" -> "Done"
    [] at = "Error" -> "Error"

\* the changes of state the session may make
PhaseSteps ==
  { <<"Init", "AwaitingLogin">>, <<"AwaitingLogin", "MenuOpen">>, <<"MenuOpen", "Listing">>,
    <<"Listing", "NoSelection">>, <<"Listing", "ProcessLoop">>, <<"ProcessLoop", "Done">> }
  \cup { <<ph, "Error">> : ph \in {"Init", "AwaitingLogin", "MenuOpen", "Listing", "ProcessLoop"} }

PositionsOf(e, t) == {i \in 1..Len(t) : t[i] = e}

\* C20: the session moves through Init, AwaitingLogin, MenuOpen, Listing,
\* then NoSelection or ProcessLoop, then Done, or from any of these to
\* Error.  The menu is clicked only in MenuOpen, after the login step; the
\* guided selection runs only after both menu clicks; a process link is
\* clicked and a window opened only after the click on the selected row; a
\* result exists exactly in NoSelection and Done; an exception is recorded
\* exactly in Error, which holds no result.
C20_SessionOrder ==
  /\ [][PhaseOf(pc') # PhaseOf(pc) => <<PhaseOf(pc), PhaseOf(pc')>> \in PhaseSteps]_vars
  /\ [][(CountOf("click_bloco", trace') > CountOf("click_bloco", trace)
           \/ CountOf("click_interno", trace') > CountOf("click_interno", trace))
          => PhaseOf(pc) = "MenuOpen"]_vars
  /\ [](PhaseOf(pc) \in {"Init", "AwaitingLogin"} =>
          (CountOf("click_bloco", trace) = 0 /\ CountOf("click_interno", trace) = 0))
  /\ [](PhaseOf(pc) \in {"Listing", "NoSelection", "ProcessLoop", "Done"} =>
          IsPrefix(<<"click_bloco", "click_interno">>, trace))
  /\ [](PhaseOf(pc) \in {"Init", "AwaitingLogin", "MenuOpen"} =>
          /\ \A i \in 1..Len(trace) : trace[i] \notin ReplayEvents
          /\ \A i \in 1..Len(warnings) : warnings[i] = "login_sem_validacao")
  /\ [](\A i \in PositionsOf("click_processo", trace) :
          /\ clicked # << >> /\ selecionado # << >>
          /\ \E j \in PositionsOf("click", trace) : j < i)
  /\ [](windows # <<1>> => CountOf("click_processo", trace) > 0)
  /\ [](PhaseOf(pc) = "ProcessLoop" => clicked # << >> /\ selecionado # << >>)
  /\ [](result # << >> <=> PhaseOf(pc) \in {"NoSelection", "Done"})
  /\ [](error # "" <=> PhaseOf(pc) = "Error")

\* a run that went through the process loop with a window opened and
\* returned its result
C20_Witness ==
  /\ pc = "Done"
  /\ result # << >>
  /\ CountOf("click_processo", trace) > 0
  /\ CountOf("close_window", trace) > 0

\* C21: an error met on a frame of the sweep counts as no match there.  The
\* frame loop is left only with elements found in a matching frame or with
\* the round over (every frame tried, or the deadline reached); a turn that
\* stays in the loop moves to the next frame, whatever the frame did; and
\* the call fails only with the deadline passed, polling again until then.
C21_FrameErrorIsNoMatch ==
  /\ [][pc = "loc_frame" =>
          \/ /\ pc' = "loc_frame"
             /\ frame_idx' = frame_idx + 1
             /\ frame_idx <= iframes /\ now < deadline
             /\ located' = << >>
          \/ /\ pc' = "loc_done"
             /\ located' = <<frame_idx>> /\ frameMatch[frame_idx]
          \/ /\ pc' = "loc_poll"
             /\ (frame_idx > iframes \/ now >= deadline)]_vars
  /\ [][pc' = "loc_timeout" => (pc = "loc_poll" /\ now >= deadline)]_vars
  /\ [](pc = "loc_timeout" => now >= deadline /\ located = << >>)

\* the third frame gave the elements in a round in which an earlier frame
\* failed
C21_Witness ==
  /\ pc = "loc_done"
  /\ located = <<3>>
  /\ ~roundOk
  /\ frameMatch = <<TRUE, FALSE, TRUE>>

LocateEnds == {"loc_done", "loc_timeout", "loc_not_ready"}

PagesEntered == page

\* next-page clicks of the sweep: each is a navigation
AdvancesDone == epoch - 1

\* C23: the sweep collects at most max_pages pages and clicks a next-page
\* control at most max_pages - 1 times, once per page after the first; it
\* goes on only below the limit and with a next page to go to, stops on a
\* page without one, and logs the warning of the limit exactly when it
\* stops on page max_pages.
C23_SweepIsBounded ==
  /\ [](pc \in {"sweep", "select"} =>
          /\ PagesEntered <= max_pages
          /\ AdvancesDone = PagesEntered - 1
          /\ AdvancesDone <= max_pages - 1
          /\ curPage = page)
  /\ [][pc = "sweep" =>
          /\ ~HasNextPage(listing, curPage) => pc' = "select"
          /\ pc' = "sweep" =>
               /\ page < max_pages /\ HasNextPage(listing, curPage)
               /\ page' = page + 1 /\ curPage' = curPage + 1
               /\ warnings' = warnings
          /\ pc' = "select" =>
               /\ page' = page /\ curPage' = curPage /\ epoch' = epoch
               /\ IF page >= max_pages
                  THEN warnings' = Append(warnings, "limite_de_seguranca")
                  ELSE warnings' = warnings]_vars
  /\ [](pc = "select" =>
          (warnings = <<"limite_de_seguranca">> <=> page = max_pages))

\* the limit of two pages stopped the sweep of a listing of three pages
C23_Witness ==
  /\ pc = "select"
  /\ max_pages = 2 /\ page = 2
  /\ Len(listing) = 3
  /\ warnings = <<"limite_de_seguranca">>
  /\ Len(visited) = 2

\* the stripped, non-empty texts of the documents the tree shows
VisibleDocTexts ==
  {Strip(tree[n].text) : n \in {m \in 1..Len(tree) : ~tree[m].folder /\ Visible(tree, m)}}
    \ {EmptyText}

\* C24: the result of run_full_flow is strictly ascending, hence sorted and
\* without duplicates; its values are exactly those of the set found, which
\* only the document collection of a visited process window extends, and
\* only by non-empty texts of documents that window shows.
C24_ResultSortedAndExact ==
  /\ [](result # << >> =>
          LET r == result[1]
          IN  /\ \A i, j \in 1..Len(r) : i < j => TextLess(r[i], r[j])
              /\ Range(r) = found
              /\ \A i \in 1..Len(r) : r[i] # EmptyText)
  /\ [](pc \in {"Done", "NoSelection"} => result # << >>)
  /\ [][found' # found =>
          /\ pc = "proc_docs" /\ screen = "processo"
          /\ found \subseteq found'
          /\ found' \ found \subseteq VisibleDocTexts]_vars

\* three texts from two process windows, returned in order
C24_Witness ==
  /\ pc = "Done"
  /\ result = << <<TxtD1, TxtD2, <<"d", "1">> >> >>
  /\ CountOf("click_processo", trace) = 2

\* C25: every value of the result set is in normalized form, and no two of
\* its values have the same normalized form.
C25_StoredTextsAreNormalized ==
  /\ \A t \in found : _normalize_text(t) = t
  /\ \A t, u \in found : _normalize_text(t) = _normalize_text(u) => t = u

NavigationMenuKeys == {"bloco", "interno"}

\* without a menu locator the run never gets past the menu step and clicks
\* nothing; without the process locator no process is listed or opened
MissingLocatorStops ==
  /\ ~(NavigationMenuKeys \subseteq selectors) =>
       /\ PhaseOf(pc) \in {"Init", "AwaitingLogin", "MenuOpen", "Error"}
       /\ CountOf("click_bloco", trace) = 0 /\ CountOf("click_interno", trace) = 0
  /\ "processo" \notin selectors =>
       /\ PhaseOf(pc) \notin {"ProcessLoop", "Done"}
       /\ processos = << >> /\ CountOf("click_processo", trace) = 0

\* the step that needs the missing locator raises, and changes nothing else
MissingLocatorRaises ==
  /\ [][(pc = "menu" /\ ~(NavigationMenuKeys \subseteq selectors)) =>
          /\ pc' = "Error" /\ error' = "menu_selectors"
          /\ trace' = trace /\ screen' = screen]_vars
  /\ [][(pc = "guided_done" /\ selecionado # << >> /\ "processo" \notin selectors) =>
          /\ pc' = "Error" /\ error' = "processo_selector"
          /\ trace' = trace /\ windows' = windows /\ processos' = << >>]_vars

\* C26 (as stated): a missing required navigation locator is fatal at its
\* first use, and no step that uses it is skipped: in particular the login
\* confirmation, the first user of tela_inicio.bloco, is never skipped.
C26_MissingLocatorFailsAtFirstUse ==
  /\ MissingLocatorStops
  /\ CountOf("login_sem_validacao", warnings) = 0

\* C26 (as amended): a missing menu locator is fatal at the menu step and a
\* missing process locator at the listing of the processes, with no default
\* taking its place; the confirmation of a manual login is the exception:
\* without tela_inicio.bloco it is skipped with a warning, only in that
\* case, and the run then fails at the menu step.
C26_MissingLocatorIsFatalAtNavigation ==
  /\ []MissingLocatorStops
  /\ MissingLocatorRaises
  /\ [](CountOf("login_sem_validacao", warnings) > 0 =>
          /\ "bloco" \notin selectors
          /\ pc \in {"popup", "menu", "Error"}
          /\ pc = "Error" => error = "menu_selectors")
  /\ [][pc' = "login_poll" => "bloco" \in selectors]_vars

\* the confirmation was skipped, and the menu step failed
C26_Witness ==
  /\ pc = "Error"
  /\ error = "menu_selectors"
  /\ "bloco" \notin selectors
  /\ warnings = <<"login_sem_validacao">>

\* the ends of run_full_flow
SessionEnds == {"Done", "NoSelection", "Error"}

\* what is left of the process loop: the processes still to open, and the
\* steps left for the process in turn
ProcessLoopMeasure ==
  30 * (Len(processos) + 1 - proc_i)
    + CASE pc = "proc_open" -> 26
        [] pc = "proc_collect" -> 25
        [] pc = "expand" -> 3 + (max_cycles + 1 - cycle)
        [] pc = "proc_docs" -> 2
        [] pc = "proc_close" -> 1

\* what is left of a call of wait_for_elements: the seconds to the deadline
\* and, within a round, the frames still to try
LocateMeasure ==
  LET frames == Len(frameMatch)
      left   == Max(0, deadline - now)
  IN  CASE pc = "locate" -> 100
        [] pc = "loc_poll" -> (frames + 5) * left + (IF now < deadline THEN frames + 3 ELSE 1)
        [] pc = "loc_frame" -> (frames + 5) * left + 2 + (iframes + 1 - frame_idx)

\* a natural number that every step makes smaller
Measure ==
  CASE pc \in SessionEnds \cup LocateEnds -> 0
    [] pc \in {"locate", "loc_poll", "loc_frame"} -> LocateMeasure
    [] pc \in {"proc_open", "proc_collect", "expand", "proc_docs", "proc_close"} -> ProcessLoopMeasure
    [] pc = "guided_done" -> 500
    [] pc = "replay_walk" -> 510 + (Head(selected).page + 1 - current_page)
    [] pc = "replay_reload" -> 540
    [] pc = "select" -> 550
    [] pc = "sweep" -> 560 + (max_pages + 1 - page)
    [] pc = "guided" -> 580
    [] pc = "menu" -> 590
    [] pc = "popup" -> 600
    [] pc = "login_poll" -> 610 + (deadline + 2 - now)
    [] pc = "login" -> 630
    [] pc = "start" -> 640

\* a step is possible.  SweepPage, ReplayAdvance and ReplayClick assign the
\* next state for every page reading and every set of controls they draw,
\* so they can step when there is one of each to draw; the other steps are
\* asked of the next-state relation itself
StepPossible ==
  IF pc \in {"sweep", "replay_walk"}
  THEN /\ StaleChoices(listing, curPage, flaky) # {}
       /\ CtlChoices(HasNextPage(listing, curPage)) # {}
       /\ pc = "replay_walk" => selected # << >>
  ELSE ENABLED NextWaits

\* C27: every wait is bounded and the session terminates.  The clock of
\* the login wait passes its deadline by at most one second and that of the
\* locate loop never, the sweep stays within max_pages, the replay walk
\* within the recorded page, the expansion within max_cycles and the
\* process loop within the listed processes.  A natural number decreases
\* with every step of a session and of a call of wait_for_elements, so
\* neither takes steps for ever; a step is possible until an end is
\* reached, so with every driver call returning the session ends in Done,
\* NoSelection or Error, and the call returns or raises.
C27_SessionTerminates ==
  /\ [](pc = "login_poll" => now <= deadline + 1)
  /\ [](pc \in {"loc_poll", "loc_frame"} => now <= deadline /\ frame_idx <= iframes + 1)
  /\ [](pc = "sweep" => page <= max_pages /\ page <= Max(1, Len(listing)))
  /\ [](pc = "replay_walk" => current_page <= Head(selected).page)
  /\ [](pc = "expand" => cycle <= max_cycles + 1)
  /\ [](pc = "proc_open" => proc_i <= Len(processos) + 1)
  /\ [](Measure \in Nat)
  /\ [](Measure = 0 <=> pc \in SessionEnds \cup LocateEnds)
  /\ [][Measure' < Measure]_vars
  /\ [](Measure > 0 => StepPossible)

\* a session that went through a sweep of two pages, a replay and the
\* collection of a process window has ended
C27_Witness ==
  /\ pc = "Done"
  /\ CountOf("next", trace) > 0
  /\ CountOf("click_processo", trace) > 0
  /\ found # {}

\* row a stands before row b in the listing
PositionBefore(a, b) ==
  a.page < b.page \/ (a.page = b.page /\ a.row_index < b.row_index)

RECURSIVE FirstOccurrences(_)
\* s without the later occurrences of its elements
FirstOccurrences(s) ==
  IF s = << >> THEN << >>
  ELSE LET front == FirstOccurrences(SubSeq(s, 1, Len(s) - 1))
           last  == s[Len(s)]
       IN  IF \E i \in 1..Len(front) : front[i] = last THEN front ELSE Append(front, last)

\* the signature that a reading of position <<p, i>> of the listing gives
SignatureAt(p, i) == Signature(InternoRow(listing[p][i], p, i, epoch, p))

\* C28: the rows the sweep has collected stand in the order of the listing,
\* by page and within a page by row position; their signatures are those
\* of the rows read, in the order read, each one once at its first
\* occurrence; each row carries the page and the row index of the place it
\* was read from, and when no row goes stale under the reading that place
\* is the first one of the listing with the signature.
C28_SweepOrderIsStable ==
  /\ \A i, j \in 1..Len(collected) : i < j => PositionBefore(collected[i], collected[j])
  /\ SignaturesOf(collected) = FirstOccurrences(visited)
  /\ \A k \in 1..Len(collected) :
       LET item == collected[k]
       IN  /\ item.page \in 1..Len(listing)
           /\ item.row_index \in 1..Len(listing[item.page])
           /\ SignatureAt(item.page, item.row_index) = Signature(item)
           /\ ~flaky =>
                \A pos \in Positions(listing) :
                  (/\ SignatureAt(pos[1], pos[2]) = Signature(item)
                   /\ _normalize_text(listing[pos[1]][pos[2]].num) # EmptyText)
                  => ~PositionBefore([page |-> pos[1], row_index |-> pos[2]], item)

\* a sweep of two pages has returned; a signature was read on both pages
\* and two rows were retained, one of them the second row of its page
C28_Witness ==
  /\ pc = "select"
  /\ page = 2
  /\ ~flaky
  /\ Len(collected) = 2
  /\ Len(visited) = 3
  /\ \E i, j \in 1..Len(visited) : i < j /\ visited[i] = visited[j]
  /\ \E k \in 1..Len(collected) : collected[k].row_index = 2

\* the text the constructor stored for the configured phrase x
StoredFor(x) == _normalize_text(x)

\* C29: _normalize_text is idempotent.  Once the constructor has parsed the
\* configured phrases, the text it stored for a phrase is left as it is by
\* a second normalization: normalize(normalize(x)) = normalize(x).
C29_NormalizeIsIdempotent ==
  pc = "start" =>
    \A i \in 1..Len(settings.descricoes_busca) :
      LET x == settings.descricoes_busca[i]
      IN  /\ StoredFor(x) # EmptyText => \E k \in 1..Len(descricoes_busca) : descricoes_busca[k] = StoredFor(x)
          /\ _normalize_text(StoredFor(x)) = StoredFor(x)

\* the spellings of the two modes and of the unset value among RawModes
ExactSpellings == {"exact", " Exact ", "EXACT"}
ContainsSpellings == {"contains", "Contains", "None", ""}

\* C30: the match mode of a session is always contains or exact.  A
\* configured value that, stripped and in lower case, is neither of the two
\* is replaced by contains and a warning is logged; a spelling of exact
\* gives exact and a spelling of contains or an unset value gives contains,
\* both without a warning.
C30_InvalidModeFallsBackToContains ==
  /\ descricao_match_mode \in {"contains", "exact"}
  /\ pc = "start" =>
       LET raw == settings.descricoes_match_mode
       IN  /\ raw \in ExactSpellings => descricao_match_mode = "exact" /\ warnings = << >>
           /\ raw \in ContainsSpellings => descricao_match_mode = "contains" /\ warnings = << >>
           /\ raw \notin ExactSpellings \cup ContainsSpellings =>
                descricao_match_mode = "contains" /\ warnings = <<"match_mode_invalido">>
  /\ pc # "start" => warnings = << >>

\* the scraper was constructed with the mode configured as regex
C30_Witness ==
  /\ pc = "start"
  /\ settings.descricoes_match_mode = "Regex"
  /\ descricao_match_mode = "contains"
  /\ warnings = <<"match_mode_invalido">>

\* the closed folders found again before the click of index k of a cycle in
\* which no click raises
LiveListAt(k) == ClosedIcons(ClickLoop(tree, 1, k - 1, {}, 0).tree)

\* C31: a cycle of _expand_all_pastas in which no driver call raises opens
\* every folder whose closed icon was displayed at the start of the cycle,
\* but for the icons whose index is past the end of the list found again
\* before their click.
C31_EveryClosedIconIsClicked ==
  [][(pc = "expand" /\ arvore /\ ~CycleLimitReached(cycle, max_cycles) /\ ~expand_errors') =>
       LET closed == ClosedIcons(tree)
       IN  \A k \in 1..Len(closed) :
             k <= Len(LiveListAt(k)) => tree'[closed[k]].open]_vars

\* a cycle of the expansion that clicked and in which, as in the cycles
\* before it, no driver call raised
CleanClickingCycle ==
  pc = "expand" /\ total_clicked' > total_clicked /\ ~expand_errors'

\* C32 as stated: after a cycle the expansion stops for convergence exactly
\* when the count after the cycle equals the count at the start of this
\* cycle and the count at the start of the cycle before.
C32_ConvergesOverTwoCycleStarts ==
  [][CleanClickingCycle =>
       (pc' = "proc_docs" <=>
          (DocCount(tree') = DocCount(tree) /\ DocCount(tree') = doc_count))]_vars

\* C32, amended: previous_doc_count holds the count taken after the cycle
\* before, -1 in the first cycle.  After a cycle that clicked, the expansion
\* stops for convergence exactly when the count after the cycle equals the
\* count at the start of this cycle and the count taken after the cycle
\* before; otherwise the count after the cycle is recorded and the next
\* cycle is due.  A count whose search raises is -1, and the test is made
\* on the counts as taken.
C32_ConvergesOnUnchangedCount ==
  /\ [](pc = "expand" /\ cycle = 1 => previous_doc_count = -1)
  /\ [](pc = "expand" /\ cycle > 1 /\ ~expand_errors => previous_doc_count = DocCount(tree))
  /\ [][CleanClickingCycle =>
         (pc' = "proc_docs" <=>
            (DocCount(tree') = DocCount(tree) /\ previous_doc_count = DocCount(tree)))]_vars
  /\ [][(pc = "expand" /\ total_clicked' > total_clicked) =>
         /\ pc' = "proc_docs" => previous_doc_count = doc_count'
         /\ pc' = "expand" =>
              ~(previous_doc_count' = previous_doc_count /\ previous_doc_count = doc_count')]_vars
  /\ [][(pc = "expand" /\ pc' = "expand") =>
         /\ cycle' = cycle + 1
         /\ previous_doc_count' \in {DocCount(tree'), -1}
         /\ total_clicked' > total_clicked]_vars

\* the expansion stopped for convergence after its second cycle: no driver
\* call raised, a closed folder is still displayed, and the folders are
\* nested, so the first cycle changed the count
C32_Witness ==
  /\ pc = "proc_docs"
  /\ ~expand_errors
  /\ cycle = 2 /\ cycle <= max_cycles
  /\ ClosedIcons(tree) # << >>
  /\ \E n \in 1..Len(tree) : tree[n].parent # 0
  /\ doc_count = DocCount(tree) /\ previous_doc_count = DocCount(tree)

\* C33: when the tree frame cannot be entered, the expansion returns in
\* the cycle it is in, without a click and without a change of the tree, and
\* raises nothing; the document search is then made, and it too ends
\* without an exception, so the process iteration goes on to the closing of
\* the window with nothing lost from the result.
C33_NoTreeFrameSkipsExpansion ==
  /\ [][(pc = "expand" /\ ~arvore) =>
         /\ pc' = "proc_docs"
         /\ tree' = tree
         /\ total_clicked' = total_clicked /\ cycle' = cycle
         /\ ctx' = 0
         /\ error' = error]_vars
  /\ [](pc \in {"expand", "proc_docs"} /\ ~arvore => total_clicked = 0 /\ cycle = 1)
  /\ [](pc \in {"expand", "proc_docs", "proc_close"} => error = "")
  /\ [](pc = "proc_docs" => ENABLED CollectDocs)
  /\ [][pc = "proc_docs" => (pc' = "proc_close" /\ found \subseteq found' /\ error' = "")]_vars

\* the document search was made in a process window without the tree frame,
\* whose tree has a closed folder
C33_Witness ==
  /\ pc = "proc_close"
  /\ ~arvore
  /\ ClosedIcons(tree) # << >>
  /\ "documentos_do_processo" \in selectors
  /\ error = ""

\* the place of the expression that finds control i among the candidates
\* of the call, 0 when no candidate finds it
CandidatePlace(i) ==
  LET candidates == NextCandidates(selectors)
      places == {k \in 1..Len(candidates) : candidates[k] = next_controls[i].xpath}
  IN  IF places = {} THEN 0 ELSE MinOf(places)

\* control i is found by a candidate, shows no sign of being disabled and
\* answers the driver
CanBeClicked(i) ==
  /\ CandidatePlace(i) # 0
  /\ next_controls[i].kind = "enabled"

\* control i is met before control j: its candidate comes first, or both
\* are found by one candidate and i stands first in the document
MetBefore(i, j) ==
  \/ CandidatePlace(i) < CandidatePlace(j)
  \/ CandidatePlace(i) = CandidatePlace(j) /\ i < j

\* the kinds of the controls the candidates find, in the order met
KindsMet ==
  LET order == {i \in 1..Len(next_controls) : CandidatePlace(i) # 0}
      RECURSIVE inOrder(_)
      inOrder(S) ==
        IF S = {} THEN << >>
        ELSE LET first == CHOOSE i \in S : \A j \in S \ {i} : MetBefore(i, j)
             IN  <<IF LooksDisabled(next_controls[first].kind) THEN "disabled"
                   ELSE next_controls[first].kind>> \o inOrder(S \ {first})
  IN  inOrder(order)

\* C34: a call of _click_next_page_if_available clicks at most one control;
\* the control clicked is found by a candidate, has neither "disabled" in
\* its class nor aria-disabled true, and is the first such control in the
\* order of the candidates, the configured expression first, and of the
\* document within a candidate; the call returns true exactly when it
\* clicked, and it clicks whenever there is a control it may click.
C34_NextPageClick ==
  pc \in {"next_true", "next_false"} =>
    /\ Len(next_clicked) <= 1
    /\ epoch = 1 + Len(next_clicked)
    /\ pc = "next_true" <=> next_clicked # << >>
    /\ pc = "next_true" <=> _click_next_page_if_available(KindsMet)
    /\ next_clicked = << >> => \A j \in 1..Len(next_controls) : ~CanBeClicked(j)
    /\ next_clicked # << >> =>
         LET i == next_clicked[1]
         IN  /\ CanBeClicked(i)
             /\ ~LooksDisabled(next_controls[i].kind)
             /\ \A j \in 1..Len(next_controls) : CanBeClicked(j) /\ j # i => MetBefore(i, j)

\* the second control of the page was clicked: the first, an enabled one,
\* is found by a later candidate
C34_Witness ==
  /\ pc = "next_true"
  /\ next_clicked = <<2>>
  /\ next_controls[1].kind = "enabled" /\ next_controls[1].xpath = "proxima_img"
  /\ next_controls[2].xpath = "proxima_title"

\* the rows of the page the call was made on
RowsShown == DisplayedRows(listing, curPage)

\* row i has an identifying link whose text is not empty
HasUsableLink(i) == _normalize_text(RowsShown[i].num) # EmptyText

\* the rows with a usable link that the call did not return
RowsLost ==
  {i \in 1..Len(RowsShown) :
     HasUsableLink(i) /\ \A k \in 1..Len(collected) : collected[k].row_index # i}

\* C35: the rows a call of _collect_interno_rows_current_page returns have
\* a usable link, stand in the order of the page and carry the index and
\* the texts of the row they were read from; a row without a link, or with
\* an empty link text, is not among them; no row with a usable link is
\* missing when no element goes stale, and when one does, at most the one
\* row it was met in.
C35_OnlyUnusableRowsAreSkipped ==
  pc = "rows_done" =>
    /\ \A k \in 1..Len(collected) :
         LET i == collected[k].row_index
         IN  /\ i \in 1..Len(RowsShown)
             /\ HasUsableLink(i)
             /\ collected[k] = InternoRow(RowsShown[i], page, i, epoch, curPage)
    /\ \A k, m \in 1..Len(collected) : k < m => collected[k].row_index < collected[m].row_index
    /\ Cardinality(RowsLost) <= (IF flaky THEN 1 ELSE 0)

\* a page of three rows: the first has no usable link, the second went
\* stale, the third was returned with its index
C35_Witness ==
  /\ pc = "rows_done"
  /\ Len(RowsShown) = 3
  /\ ~HasUsableLink(1)
  /\ RowsLost = {2}
  /\ Len(collected) = 1 /\ collected[1].row_index = 3

\* C36: when a caller reads or clicks an element that wait_for_elements
\* returned, the context the element was found in is the active one.
C36_HandlesUsedInTheirFrame ==
  pc \in {"caller_read", "caller_error"} => located[1] = ctx

\* the replay click of the selection last made reported a failure
ReplayFailed ==
  /\ pc = "guided_done"
  /\ trace # << >> /\ Last(trace) \in ErrorEvents

\* C37: when the replay click fails (reload error, recorded page not
\* reached, signature not found, or the click raised), the guided selection
\* returns none, and run_full_flow then ends in NoSelection: it returns the
\* empty result without an error, lists no process and opens no window.
C37_FailedReplayEndsInNoSelection ==
  /\ [](ReplayFailed => selecionado = << >> /\ clicked = << >> /\ error = "")
  /\ [][ReplayFailed =>
          /\ pc' = "NoSelection"
          /\ result' = << << >> >>
          /\ error' = ""
          /\ found' = {}
          /\ trace' = trace /\ clicked' = << >>
          /\ windows' = windows /\ curWin' = curWin
          /\ processos' = << >> /\ procEntries' = << >>]_vars
  /\ [](pc = "NoSelection" /\ trace # << >> /\ Last(trace) \in ErrorEvents =>
          /\ result = << << >> >> /\ error = ""
          /\ windows = <<1>> /\ processos = << >>
          /\ CountOf("click_processo", trace) = 0)

\* the recorded row was not found on its page, and the flow returned its
\* empty result
C37_Witness ==
  /\ pc = "NoSelection"
  /\ trace # << >> /\ Last(trace) = "err_not_found"
  /\ selected = << >> /\ selecionado = << >>
  /\ result = << << >> >>

\* the table row an InternoRow was built from
ListedRow(item) == listing[item.page][item.row_index]

\* the row shows no usable description
NoDescricao(row) ==
  _extract_descricao_from_row(row, _normalize_text(row.num)) = EmptyText

\* C38: a collected row whose description is empty is never selected, in
\* either match mode and for any configured target list: every parsed target
\* is a non-empty text, a row without a usable description is collected with
\* an empty description, and the row selected, returned or clicked is never
\* such a row.
C38_EmptyDescriptionIsNeverSelected ==
  /\ \A k \in 1..Len(descricoes_busca) : descricoes_busca[k] # EmptyText
  /\ \A i \in 1..Len(collected) :
        /\ NoDescricao(ListedRow(collected[i])) <=> collected[i].descricao = EmptyText
        /\ collected[i].descricao = EmptyText <=> collected[i].descricao_normalizada = EmptyText
  /\ \A i \in 1..Len(selected) :
        /\ selected[i].descricao_normalizada # EmptyText
        /\ pc = "replay_reload" => ~NoDescricao(ListedRow(selected[i]))
  /\ \A i \in 1..Len(selecionado) : selecionado[i].descricao # EmptyText
  /\ \A i \in 1..Len(clicked) : ~NoDescricao(clicked[i])

\* a row without a description was collected before the row that was
\* selected and clicked
C38_Witness ==
  /\ pc = "guided_done"
  /\ Len(listing) = 1 /\ Len(listing[1]) = 2
  /\ NoDescricao(listing[1][1])
  /\ selecionado # << >> /\ Head(selecionado).row_index = 2
  /\ clicked = <<listing[1][2]>>

\* C39: when _open_processo returns, the focused window is a handle that
\* was not open before the click, and every window open before is still
\* open; when no new window appears it raises, the focused window is the
\* one focused before the call and no window was closed or opened.
C39_OpenProcessoFocus ==
  /\ [][(pc = "proc_open" /\ proc_i <= Len(processos)) =>
          /\ pc' \in {"proc_collect", "Error"}
          /\ Range(windows) \subseteq Range(windows')
          /\ pc' = "proc_collect" =>
                /\ curWin' \notin Range(windows)
                /\ curWin' \in Range(windows')
                /\ Last(trace') = "click_processo"
                /\ error' = error
          /\ pc' = "Error" =>
                /\ error' \in OpenProcessoErrors \cup {"no_such_window"}
                /\ curWin' = curWin
                /\ windows' = windows
                /\ screen' = screen
          /\ (error' = "open_processo_no_window" <=>
                 (pc' = "Error" /\ Len(trace') = Len(trace) + 1))]_vars
  /\ [](curWin \in Range(windows) \/ curWin = NoWindow)

\* the click opened two windows and the second of them was switched to
C39_Witness ==
  /\ pc = "proc_collect"
  /\ windows = <<1, 2, 3>>
  /\ curWin = 3
  /\ trace # << >> /\ Last(trace) = "click_processo"

\* C40: _close_current_tab_and_back closes a window only when more than
\* one is open; afterwards at least one window is open and one of the open
\* windows is focused; and it raises nothing: the loop goes on to the next
\* process.
C40_CloseKeepsAFocusedWindow ==
  [][pc = "proc_close" =>
       /\ windows' # windows => Len(windows) > 1
       /\ Len(windows') >= 1
       /\ curWin' \in Range(windows')
       /\ pc' = "proc_open" /\ proc_i' = proc_i + 1 /\ error' = error]_vars

=========================================================================
